---- MODULE Spec2Model ----
(***************************************************************************)
(* ilp-core, src/lib/client.js: the Client's message correlator            *)
(* (_sendAndReceiveMessage / _onIncomingMessage over pendingMessages and    *)
(* one timer per request) and the quote fan-out built on it (quote /       *)
(* _getQuote / getCheaperQuote).                                            *)
(*                                                                         *)
(* JavaScript runs each handler to completion, so every action below is    *)
(* one handler or one continuation: a call of the client's API, the        *)
(* delivery of one 'incoming_message', one timer callback, the settling of *)
(* one sendMessage promise, the continuation of quote after its join.      *)
(* Messages are those of the quoting protocol: an 'error' message carries  *)
(* data.message and a 'quote_response' carries a quote in data.data.       *)
(*                                                                         *)
(* Also modelled: sendQuotedPayment (its checks and the one transfer it    *)
(* hands to the endpoint) and, from the version of the file that has it,   *)
(* waitForConnection with connect and disconnect.                          *)
(*                                                                         *)
(* Core (the version with removeClient and liquidity curves): its registry *)
(* of clients with the relay of their events, and Core.quote over routing  *)
(* tables, where one action is _quote up to its yield and one is the       *)
(* continuation after the tail quote.                                      *)
(***************************************************************************)
EXTENDS Integers, Sequences, FiniteSets, TLC

\* ---------------------------------------------------------------- bounds
MaxReq == 2          \* requests (ids) issued in one behaviour
MaxConnectors == 2   \* connectors of one quote fan-out
MaxWaits == 2        \* waitForConnection calls in one behaviour
MaxTransfers == 2    \* transfers submitted in one behaviour
MaxEvents == 2       \* 'connect' events counted for one waitForConnection call
MaxClients == 2      \* clients handed to Core.addClient
MaxCalls == 3        \* addClient and removeClient calls in one behaviour

Ids == 1..MaxReq

\* messageTimeout values a client is constructed with (clientOpts.messageTimeout)
TimeoutChoices == {1, 2}

\* ------------------------------------------------------ amounts and quotes
\* A decimal string is <<digits, scale>>: <<10, 1>> is "1.0", <<1, 0>> is "1".
Amounts == {<<1, 0>>, <<2, 0>>}

RECURSIVE Pow10(_)
Pow10(n) == IF n = 0 THEN 1 ELSE 10 * Pow10(n - 1)

\* new BigNumber(a).lessThan(b): exact decimal comparison of two strings
LessThan(a, b) == a[1] * Pow10(b[2]) < b[1] * Pow10(a[2])

\* new BigNumber(a).greaterThan(b)
GreaterThan(a, b) == a[1] * Pow10(b[2]) > b[1] * Pow10(a[2])

\* the data.data of a quote_response
Quotes ==
  [source_amount : Amounts, destination_amount : Amounts]
  \cup {[source_amount |-> <<10, 1>>, destination_amount |-> <<1, 0>>]}

ValidationError == "Should provide source or destination amount but not both"

TimeoutError == "Timed out while awaiting response message"
RemoteError == "broken"
TransportError == "send failed"
ConditionError == "executionCondition must be provided unless unsafeOptimisticTransport is true"
ExpiresAtError == "executionCondition should not be used without expiresAt"
SourceAmountError == "sourceAmount must be provided"
DestinationAmountError == "destinationAmount must be provided"
DestinationAccountError == "destinationAccount must be provided"
LocalAmountsError == "sourceAmount and destinationAmount must be equivalent for local transfers"
TransferError == "transfer failed"
DisconnectedError == "Plugin is set to disconnected state"

\* ---------------------------------------------------------------- state
VARIABLES
  messageTimeout,   \* this.messageTimeout
  nextId,           \* the next fresh id uuid() returns
  pendingMessages,  \* the keys of this.pendingMessages
  timer,            \* per id: the setTimeout handle, with the time elapsed since
                    \* it was armed (counted up to the delay it was armed with)
  promise,          \* per id: the promise _sendAndReceiveMessage returned
  sendStatus,       \* per id: the promise plugin.sendMessage returned: "failed"
                    \* once it has rejected and the .catch handler has run
  firstEvent,       \* per id: the first event that occurred for the request
  last,             \* the handler that ran last, with its input
  quoteState,       \* the promise of the latest Client.quote call
  quoteErr,         \* the message of the error it rejected with
  quoteReqs,        \* the ids of its requests, in connector order
  quoteResult,      \* what it resolved with: <<>> is undefined
  connectors,       \* this.connectors: <<>> is undefined, <<list>> a list
  infoConnectors,   \* plugin.getInfo().connectors, likewise
  sentTo,           \* per id: the connector its message went to (reqMessage.to)
  answer,           \* per connector: how it answers, where the connectors answer
                    \* deterministically; <<>> where they do not
  transfers,        \* the transfers handed to plugin.sendTransfer, in order
  payment,          \* the latest sendQuotedPayment call: its params, the promise
                    \* it returned, the number of transfers it submitted
  connecting,       \* this.connecting
  connected,        \* what plugin.isConnected() returns
  listeners,        \* the waits listening with plugin.once('connect', resolve)
  waits,            \* per wait: the promise waitForConnection returned, with
                    \* the number of times its resolve was called
  clients,          \* Core: this.clients, per prefix the client or 0 for no entry
  clientList,       \* Core: this.clientList
  relay,            \* per client: how many times Core's _relayEvent is among
                    \* its onAny listeners
  log,              \* the addClient and removeClient calls made with a
                    \* well-formed prefix, in order, a removeClient with the
                    \* client it returned (0 for undefined)
  coreLast,         \* the Core call (or client event) that ran last, with
                    \* what it returned or threw and what Core emitted
  tables,           \* Core: this.tables, the routes the routing tables hold
  coreQuote         \* the latest Core.quote call: its query, the tail
                    \* requests it issued, the promise it returned

vars == <<messageTimeout, nextId, pendingMessages, timer, promise,
          sendStatus, firstEvent, last, quoteState, quoteErr, quoteReqs, quoteResult,
          connectors, infoConnectors, sentTo, answer, transfers, payment,
          connecting, connected, listeners, waits,
          clients, clientList, relay, log, coreLast, tables, coreQuote>>

\* what the constructor and the environment fix for a whole run
config == <<messageTimeout, connectors, infoConnectors, answer>>

payVars == <<transfers, payment>>

connVars == <<connecting, connected, listeners, waits>>

registry == <<clients, clientList, relay>>

coreVars == <<clients, clientList, relay, log, coreLast, tables, coreQuote>>

quoteVars == <<quoteState, quoteErr, quoteReqs, quoteResult>>

\* the state of a Client, which no call of Core touches
clientVars == <<config, payVars, connVars, quoteVars, nextId, sentTo,
                pendingMessages, timer, promise, sendStatus, firstEvent, last>>

correlator == <<pendingMessages, timer, promise>>

\* ------------------------------------------------------------- promises
Unset == [state |-> "none", err |-> "", quote |-> <<>>]
Pending == [state |-> "pending", err |-> "", quote |-> <<>>]

\* resolve(v) of a promise: settles it unless it is settled already
Resolve(p, q) ==
  IF p.state = "pending" THEN [state |-> "resolved", err |-> "", quote |-> q] ELSE p

\* reject(e) of a promise: settles it unless it is settled already
Reject(p, e) ==
  IF p.state = "pending" THEN [state |-> "rejected", err |-> e, quote |-> <<>>] ELSE p

Settled(id) == promise[id].state \in {"resolved", "rejected"}

\* --------------------------------------------------------------- timers
Timer(st) == [st |-> st, delay |-> 0, elapsed |-> 0]
NoTimer == Timer("none")

\* setTimeout(callback, delay)
SetTimeout(delay) == [st |-> "armed", delay |-> delay, elapsed |-> 0]

\* a timer's callback can run once its delay has elapsed, not earlier
Due(t) == t.st = "armed" /\ t.elapsed >= t.delay

\* ------------------------------------------------------------- messages
NoData == [hasData |-> FALSE, id |-> 0, method |-> "", quote |-> <<>>]

\* the responses of the quoting protocol
Responses ==
  [hasData : {TRUE}, id : Ids, method : {"error"}, quote : {<<>>}]
  \cup [hasData : {TRUE}, id : Ids, method : {"quote_response"},
        quote : {<<q>> : q \in Quotes}]

\* every message the endpoint may deliver: also one without data, and one of
\* another method (a peer's quote_request) under any id
Messages ==
  Responses
  \cup {NoData}
  \cup [hasData : {TRUE}, id : Ids, method : {"quote_request"}, quote : {<<>>}]

\* ------------------------------------------------------ quote parameters
\* An address is its dot-separated segments; a ledger prefix "example.blue."
\* is the segments before its final dot.
Prefix == <<"example", "blue">>
LocalAddress == <<"example", "blue", "bob">>
RemoteAddress == <<"example", "red">>

\* startsWith that takes every address for a remote one
StartsWithNever(prefix, address) == FALSE

\* startsWith(prefix, address)
StartsWith(prefix, address) ==
  /\ Len(address) >= Len(prefix)
  /\ SubSeq(address, 1, Len(prefix)) = prefix

\* the connectors an endpoint can name, and the list of the first n of them
Connectors == 1..MaxConnectors

FirstConnectors(n) == [k \in 1..n |-> k]

\* The params of Client.quote: an optional field is <<>> where it is undefined
\* and <<v>> where it is v. Here the connector list is always given, and the
\* expiry duration and the connector list vary on the paths that read them.
Params ==
  [sourceAmount : {<<>>, <<(<<1, 0>>)>>},
   destinationAmount : {<<>>, <<(<<1, 0>>)>>},
   destinationAddress : {LocalAddress},
   destinationExpiryDuration : {<<>>, <<4>>},
   connectors : {<<FirstConnectors(0)>>}]
  \cup
  [sourceAmount : {<<>>, <<(<<1, 0>>)>>},
   destinationAmount : {<<>>, <<(<<1, 0>>)>>},
   destinationAddress : {RemoteAddress},
   destinationExpiryDuration : {<<>>},
   connectors : {<<FirstConnectors(n)>> : n \in 0..MaxConnectors}]

\* The same params with connectors no earlier call has named: the connector
\* of a request is then the one named after its id.
Unasked(params) ==
  [params EXCEPT !.connectors = <<[k \in 1..Len(@[1]) |-> nextId + k - 1]>>]

\* The connector lists a call may give, the constructor may be given and the
\* endpoint may name: undefined or a list, the three lists being different.
GivenLists == {<<>>, <<FirstConnectors(0)>>, <<FirstConnectors(1)>>}
ConfiguredLists == {<<>>, <<FirstConnectors(0)>>, <<(<<MaxConnectors>>)>>}
InfoLists == {<<>>, <<FirstConnectors(MaxConnectors)>>}

\* The params of Client.quote with every field varying on every path.
CallParams ==
  [sourceAmount : {<<>>, <<(<<1, 0>>)>>},
   destinationAmount : {<<>>, <<(<<1, 0>>)>>},
   destinationAddress : {LocalAddress, RemoteAddress},
   destinationExpiryDuration : {<<>>, <<4>>},
   connectors : GivenLists]

NoParams ==
  [sourceAmount |-> <<>>, destinationAmount |-> <<>>, destinationAddress |-> <<>>,
   destinationExpiryDuration |-> <<>>, connectors |-> <<>>]

Step(op, id, method) == [op |-> op, id |-> id, method |-> method, params |-> NoParams]

\* firstEvent keeps, for each request, the first of the events that can settle
\* it (a response delivered for its id, its timer's callback, the failure of
\* its send), with the quote a quote_response carried.
NoEvent == [ev |-> "none", quote |-> <<>>]

First(f, id, ev, quote) ==
  IF f[id] = NoEvent THEN [f EXCEPT ![id] = [ev |-> ev, quote |-> quote]] ELSE f

\* ----------------------------------------------------------- payments
\* The params of Client.sendQuotedPayment: an optional field is <<>> where it
\* is undefined. The amounts are the strings "1" and "1.0"; a uuid the caller
\* supplies is none of those uuid.v4() generates.
PayParams ==
  [executionCondition : {<<>>, <<"uzoYx3K6u">>},
   unsafeOptimisticTransport : BOOLEAN,
   expiresAt : {<<>>, <<"2016-07-02">>},
   sourceAmount : {<<>>, <<(<<1, 0>>)>>},
   destinationAmount : {<<>>, <<(<<1, 0>>)>>, <<(<<10, 1>>)>>},
   destinationAccount : {<<>>, <<"example.blue.bob">>},
   connectorAccount : {<<>>, <<"connector">>},
   uuid : {<<>>, <<(<<"given", 0>>)>>}]

\* no sendQuotedPayment call yet
NoPayment == [params |-> <<>>, state |-> "idle", err |-> "", submitted |-> 0]

\* ------------------------------------------------------------ connection
Waits == 1..MaxWaits

\* A wait is the promise of one waitForConnection call, with its history:
\* whether the call was suspended, how often its resolve was called, and how
\* many 'connect' events the endpoint has emitted since the call.
Wait(state, err, resolveCalls, suspended) ==
  [state |-> state, err |-> err, resolveCalls |-> resolveCalls,
   suspended |-> suspended, events |-> 0]

NoWait == Wait("none", "", 0, FALSE)

\* the client as its constructor leaves it
ClientInit ==
  /\ nextId = 1
  /\ pendingMessages = {}
  /\ timer = [i \in Ids |-> NoTimer]
  /\ promise = [i \in Ids |-> Unset]
  /\ sendStatus = [i \in Ids |-> "none"]
  /\ firstEvent = [i \in Ids |-> NoEvent]
  /\ last = Step("init", 0, "")
  /\ quoteState = "idle"
  /\ quoteErr = ""
  /\ quoteReqs = <<>>
  /\ quoteResult = <<>>
  /\ sentTo = [i \in Ids |-> 0]
  /\ transfers = <<>>
  /\ payment = NoPayment
  /\ connecting = FALSE
  /\ listeners = {}
  /\ waits = [w \in Waits |-> NoWait]

\* ------------------------------------------------------------------ Core
\* A string is the sequence of its segments and delimiters: <<"ledger1", ".">>
\* is 'ledger1.' and <<"ledger1">> is 'ledger1'.
Ledger1 == <<"ledger1", ".">>
Ledger2 == <<"ledger2", ".">>
Ledger3 == <<"ledger3", ".">>

Ledgers == {Ledger1, Ledger2, Ledger3}

\* the ledgers Core is given clients for; Ledger3 is a ledger that only the
\* routing tables know
LocalLedgers == {Ledger1, Ledger2}

\* arguments that are no ledger prefix: 'ledger1' and ''
BareNames == {<<"ledger1">>, <<>>}

PrefixError == "prefix must end with \".\""

CoreClients == 1..MaxClients

\* what a client emits: the event's name and its arguments
EventNames == {"foobar", "connect"}
EventArgs == {<<>>, <<1>>, <<1, 2>>, <<2, 1>>, <<1, 2, 3>>}

\* what a Core call returned (kind "client", "plugin", "null", "undefined") or
\* threw (kind "throw")
CoreResult(kind, client, err) == [kind |-> kind, client |-> client, err |-> err]

Returned(kind, client) == CoreResult(kind, client, "")

Thrown(err) == CoreResult("throw", 0, err)

CoreCall(op, prefix, client, result) ==
  [op |-> op, prefix |-> prefix, client |-> client, result |-> result,
   event |-> "", args |-> <<>>, emitted |-> <<>>]

\* A liquidity curve is the straight line from [0, 0] to [100, 100 / k], held
\* as k: <<2>> is [[0, 0], [100, 50]], and <<>> is no curve.
\* the prefix of the ledger a client's plugin is on
PrefixOf(client) == IF client = 1 THEN Ledger1 ELSE Ledger2

\* the scale in the info of a ledger's plugin
Scale == 2

Mary2 == <<"ledger2", ".", "mary">>

\* the route of the connector's own pair of ledgers, as addLocalRoutes adds it
LocalRoute ==
  [sourceLedger |-> Ledger1, nextLedger |-> Ledger2, destinationLedger |-> Ledger2,
   connector |-> <<>>, minMessageWindow |-> 3, curve |-> <<2>>]

\* a route to a ledger behind the next connector, as addRoute adds it, with a
\* curve or without one
RemoteRoute(curve) ==
  [sourceLedger |-> Ledger1, nextLedger |-> Ledger2, destinationLedger |-> Ledger3,
   connector |-> Mary2, minMessageWindow |-> 7, curve |-> curve]

RoutingTables ==
  {{}, {LocalRoute}, {LocalRoute, RemoteRoute(<<>>)}, {LocalRoute, RemoteRoute(<<4>>)}}

\* the queries Core.quote is called with: one amount, to an account of the
\* next ledger, of the remote ledger, of a ledger below the remote ledger or
\* of a ledger no route leads to
CoreQueries ==
  {q \in [sourceAddress : {<<"ledger1", ".", "alice">>},
          destinationAddress : {<<"ledger2", ".", "bob">>, <<"ledger3", ".", "bob">>,
                                <<"ledger3", ".", "sub", ".", "bob">>,
                                <<"ledger4", ".", "mark">>},
          sourceAmount : {<<>>, <<(<<100, 0>>)>>, <<(<<101, 0>>)>>},
          destinationAmount : {<<>>, <<(<<10, 0>>)>>},
          sourceExpiryDuration : {<<>>, <<10>>},
          destinationExpiryDuration : {<<>>, <<1>>}] :
     (q.sourceAmount = <<>>) # (q.destinationAmount = <<>>)}

\* queries that name both a source and a destination amount
BothAmountQueries ==
  [sourceAddress : {<<"ledger1", ".", "alice">>},
   destinationAddress : {<<"ledger2", ".", "bob">>, <<"ledger3", ".", "bob">>,
                         <<"ledger3", ".", "sub", ".", "bob">>,
                         <<"ledger4", ".", "mark">>},
   sourceAmount : {<<(<<100, 0>>)>>, <<(<<101, 0>>)>>},
   destinationAmount : {<<(<<10, 0>>)>>},
   sourceExpiryDuration : {<<>>, <<10>>},
   destinationExpiryDuration : {<<>>, <<1>>}]

NoQuery ==
  [sourceAddress |-> <<>>, destinationAddress |-> <<>>, sourceAmount |-> <<>>,
   destinationAmount |-> <<>>, sourceExpiryDuration |-> <<>>,
   destinationExpiryDuration |-> <<>>]

\* what the next connector answers a quote request with
TailQuotes ==
  [destination_ledger : {Ledger3, <<"ledger3", ".", "sub", ".">>},
   source_amount : {<<50, 0>>, <<5000, 2>>},
   destination_amount : {<<10, 0>>},
   source_expiry_duration : {2, 7},
   destination_expiry_duration : {1},
   liquidity_curve : {<<>>, <<5>>}]

NullError == "Cannot read property of null"

\* a Core.quote call: the query, the locals of _quote that outlive its yield,
\* the requests it made of clients, and the promise it returned (a result of
\* <<>> is null)
NoCoreQuote ==
  [state |-> "idle", query |-> NoQuery, hop |-> <<>>, headHop |-> <<>>,
   localQuote |-> <<>>, requests |-> <<>>, tailQuote |-> <<>>, result |-> <<>>,
   err |-> ""]

\* new Core(): no client, the relay listener on no client, no routes
CoreInit ==
  /\ clients = [p \in Ledgers |-> 0]
  /\ clientList = <<>>
  /\ relay = [c \in CoreClients |-> 0]
  /\ log = <<>>
  /\ coreLast = CoreCall("init", <<>>, 0, Returned("undefined", 0))
  /\ tables = {}
  /\ coreQuote = NoCoreQuote

\* a client with no connector list, on an endpoint that names none and is not
\* connected
Init ==
  /\ ClientInit
  /\ CoreInit
  /\ messageTimeout \in TimeoutChoices
  /\ connectors = <<>>
  /\ infoConnectors = <<>>
  /\ answer = <<>>
  /\ connected = FALSE

\* ------------------------------------------------------------ correlator
\* The state change of _sendAndReceiveMessage for the ids of `new`: a fresh id
\* each, the timer armed, the entry registered, the message handed to the
\* endpoint.
\* Register with the timer armed with no delay instead of messageTimeout
RegisterZeroDelay(new) ==
  /\ nextId' = nextId + Cardinality(new)
  /\ promise' = [i \in Ids |-> IF i \in new THEN Pending ELSE promise[i]]
  /\ timer' = [i \in Ids |-> IF i \in new THEN SetTimeout(0) ELSE timer[i]]
  /\ pendingMessages' = pendingMessages \cup new
  /\ sendStatus' = [i \in Ids |-> IF i \in new THEN "sent" ELSE sendStatus[i]]

\* Register that hands the message to the endpoint without the entry in
\* pendingMessages
RegisterSendsFirst(new) ==
  /\ nextId' = nextId + Cardinality(new)
  /\ promise' = [i \in Ids |-> IF i \in new THEN Pending ELSE promise[i]]
  /\ timer' = [i \in Ids |-> IF i \in new THEN SetTimeout(messageTimeout) ELSE timer[i]]
  /\ pendingMessages' = pendingMessages
  /\ sendStatus' = [i \in Ids |-> IF i \in new THEN "sent" ELSE sendStatus[i]]

Register(new) ==
  /\ nextId' = nextId + Cardinality(new)
  /\ promise' = [i \in Ids |-> IF i \in new THEN Pending ELSE promise[i]]
  /\ timer' = [i \in Ids |-> IF i \in new THEN SetTimeout(messageTimeout) ELSE timer[i]]
  /\ pendingMessages' = pendingMessages \cup new
  /\ sendStatus' = [i \in Ids |-> IF i \in new THEN "sent" ELSE sendStatus[i]]

\* Client._sendAndReceiveMessage, called on its own (Core calls _getQuote)
SendAndReceiveMessage ==
  /\ nextId <= MaxReq
  /\ Register({nextId})
  /\ sentTo' = [sentTo EXCEPT ![nextId] = 1]
  /\ last' = Step("send", nextId, "")
  /\ UNCHANGED <<coreVars, config, payVars, connVars, firstEvent, quoteVars>>

\* a timer callback that arms the timer again instead of rejecting
TimerFireRearms(id) ==
  /\ Due(timer[id])
  /\ timer' = [timer EXCEPT ![id] = SetTimeout(messageTimeout)]
  /\ last' = Step("timer", id, "")
  /\ UNCHANGED <<coreVars, config, payVars, connVars, nextId, sentTo, pendingMessages, sendStatus, quoteVars,
                 promise, firstEvent>>

\* the timer callback of _sendAndReceiveMessage
TimerFire(id) ==
  /\ Due(timer[id])
  /\ timer' = [timer EXCEPT ![id] = Timer("fired")]
  /\ promise' = [promise EXCEPT ![id] = Reject(@, TimeoutError)]
  /\ firstEvent' = First(firstEvent, id, "timeout", <<>>)
  /\ last' = Step("timer", id, "")
  /\ UNCHANGED <<coreVars, config, payVars, connVars, nextId, sentTo, pendingMessages, sendStatus, quoteVars>>

\* ClearTimeout left out: the timer stays armed
ClearTimeoutMissing(t, id) == t

\* clearTimeout(handle): a timer that has fired or was cleared stays as it is
ClearTimeout(t, id) ==
  IF t[id].st = "armed" THEN [t EXCEPT ![id] = Timer("cleared")] ELSE t

\* plugin.sendMessage(reqMessage) rejected: the .catch handler
SendFail(id) ==
  /\ sendStatus[id] = "sent"
  /\ sendStatus' = [sendStatus EXCEPT ![id] = "failed"]
  /\ promise' = [promise EXCEPT ![id] = Reject(@, TransportError)]
  /\ timer' = ClearTimeout(timer, id)
  /\ pendingMessages' = pendingMessages \ {id}
  /\ firstEvent' = First(firstEvent, id, "sendfail", <<>>)
  /\ last' = Step("sendFail", id, "")
  /\ UNCHANGED <<coreVars, config, payVars, connVars, nextId, sentTo, quoteVars>>

\* the record of a delivered message: a response to a request that was issued
\* is an event of that request, whatever the handler makes of it
Delivered(m) ==
  IF m.hasData /\ m.method \in {"error", "quote_response"} /\ sendStatus[m.id] # "none"
    THEN First(firstEvent, m.id, m.method, m.quote) ELSE firstEvent

\* OnIncomingMessage without the return of its last else: a message of another
\* method clears the timer and removes the entry
OnIncomingMessageFallThrough(m) ==
  /\ last' = Step("incoming", m.id, IF m.hasData THEN m.method ELSE "nodata")
  /\ firstEvent' = Delivered(m)
  /\ UNCHANGED <<coreVars, config, payVars, connVars, nextId, sentTo, sendStatus, quoteVars>>
  /\ IF ~m.hasData \/ m.id \notin pendingMessages
       THEN UNCHANGED <<pendingMessages, timer, promise>>
     ELSE /\ promise' =
               IF m.method = "error" THEN [promise EXCEPT ![m.id] = Reject(@, RemoteError)]
               ELSE IF m.method = "quote_response"
                 THEN [promise EXCEPT ![m.id] = Resolve(@, m.quote)]
               ELSE promise
          /\ timer' = ClearTimeout(timer, m.id)
          /\ pendingMessages' = pendingMessages \ {m.id}

\* OnIncomingMessage that, on a response, empties the whole map and clears
\* every timer instead of the matched entry's
OnIncomingMessageDropsAll(m) ==
  /\ last' = Step("incoming", m.id, IF m.hasData THEN m.method ELSE "nodata")
  /\ firstEvent' = Delivered(m)
  /\ UNCHANGED <<coreVars, config, payVars, connVars, nextId, sentTo, sendStatus, quoteVars>>
  /\ IF ~m.hasData \/ m.id \notin pendingMessages \/ m.method = "quote_request"
       THEN UNCHANGED <<pendingMessages, timer, promise>>
     ELSE /\ promise' =
               IF m.method = "error" THEN [promise EXCEPT ![m.id] = Reject(@, RemoteError)]
               ELSE [promise EXCEPT ![m.id] = Resolve(@, m.quote)]
          /\ timer' = [i \in Ids |-> ClearTimeout(timer, i)[i]]
          /\ pendingMessages' = {}

\* OnIncomingMessage that hands a response to the newest pending entry
\* instead of the entry of the response's id
OnIncomingMessageNewestEntry(m) ==
  LET id == IF pendingMessages = {} THEN m.id
            ELSE CHOOSE i \in pendingMessages : \A j \in pendingMessages : j <= i
  IN
  /\ last' = Step("incoming", m.id, IF m.hasData THEN m.method ELSE "nodata")
  /\ firstEvent' = Delivered(m)
  /\ UNCHANGED <<coreVars, config, payVars, connVars, nextId, sentTo, sendStatus, quoteVars>>
  /\ IF ~m.hasData \/ id \notin pendingMessages
       THEN UNCHANGED <<pendingMessages, timer, promise>>
     ELSE IF m.method = "error"
       THEN /\ promise' = [promise EXCEPT ![id] = Reject(@, RemoteError)]
            /\ timer' = ClearTimeout(timer, id)
            /\ pendingMessages' = pendingMessages \ {id}
     ELSE IF m.method = "quote_response"
       THEN /\ promise' = [promise EXCEPT ![id] = Resolve(@, m.quote)]
            /\ timer' = ClearTimeout(timer, id)
            /\ pendingMessages' = pendingMessages \ {id}
     ELSE UNCHANGED <<pendingMessages, timer, promise>>

\* Client._onIncomingMessage
OnIncomingMessage(m) ==
  /\ last' = Step("incoming", m.id, IF m.hasData THEN m.method ELSE "nodata")
  /\ firstEvent' = Delivered(m)
  /\ UNCHANGED <<coreVars, config, payVars, connVars, nextId, sentTo, sendStatus, quoteVars>>
  /\ IF ~m.hasData \/ m.id \notin pendingMessages
       THEN UNCHANGED <<pendingMessages, timer, promise>>
     ELSE IF m.method = "error"
       THEN /\ promise' = [promise EXCEPT ![m.id] = Reject(@, RemoteError)]
            /\ timer' = ClearTimeout(timer, m.id)
            /\ pendingMessages' = pendingMessages \ {m.id}
     ELSE IF m.method = "quote_response"
       THEN /\ promise' = [promise EXCEPT ![m.id] = Resolve(@, m.quote)]
            /\ timer' = ClearTimeout(timer, m.id)
            /\ pendingMessages' = pendingMessages \ {m.id}
     ELSE UNCHANGED <<pendingMessages, timer, promise>>

\* Time passes: every armed timer that is not yet due is one tick older.
Tick ==
  /\ \E i \in Ids : timer[i].st = "armed" /\ ~Due(timer[i])
  /\ timer' = [i \in Ids |->
        IF timer[i].st = "armed" /\ ~Due(timer[i])
          THEN [timer[i] EXCEPT !.elapsed = @ + 1] ELSE timer[i]]
  /\ last' = Step("tick", 0, "")
  /\ UNCHANGED <<coreVars, config, payVars, connVars, nextId, sentTo, pendingMessages, promise, sendStatus,
                 firstEvent, quoteVars>>

\* ----------------------------------------------------------------- quote
\* The promise Client._getQuote returns for the request id: the quote of the
\* response (tagged with the connector that was asked, which stands for its
\* source_connector_account), undefined after any rejection.
\* GetQuote without its catch: a rejection of the request is passed on
GetQuoteNoCatch(id) ==
  IF promise[id].state = "resolved"
    THEN [state |-> "resolved",
          value |-> <<[source_amount |-> promise[id].quote[1].source_amount,
                       destination_amount |-> promise[id].quote[1].destination_amount,
                       source_connector_account |-> sentTo[id]]>>]
  ELSE IF promise[id].state = "rejected"
    THEN [state |-> "rejected", value |-> <<>>]
  ELSE [state |-> "pending", value |-> <<>>]

GetQuote(id) ==
  IF promise[id].state = "resolved"
    THEN [state |-> "resolved",
          value |-> <<[source_amount |-> promise[id].quote[1].source_amount,
                       destination_amount |-> promise[id].quote[1].destination_amount,
                       source_connector_account |-> sentTo[id]]>>]
  ELSE IF promise[id].state = "rejected"
    THEN [state |-> "resolved", value |-> <<>>]
  ELSE [state |-> "pending", value |-> <<>>]

\* getCheaperQuote that compares the source amounts only
getCheaperQuoteSourceOnly(quote1, quote2) ==
  IF LessThan(quote1.source_amount, quote2.source_amount) THEN quote1 ELSE quote2

\* getCheaperQuote that keeps quote1 unless quote2 is strictly better
getCheaperQuoteKeepLeft(quote1, quote2) ==
  IF LessThan(quote1.source_amount, quote2.source_amount) THEN quote1
  ELSE IF ~LessThan(quote1.destination_amount, quote2.destination_amount) THEN quote1
  ELSE quote2

getCheaperQuote(quote1, quote2) ==
  IF LessThan(quote1.source_amount, quote2.source_amount) THEN quote1
  ELSE IF GreaterThan(quote1.destination_amount, quote2.destination_amount) THEN quote1
  ELSE quote2

\* quotes.reduce(getCheaperQuote), for a non-empty array
RECURSIVE Reduce(_)
Reduce(quotes) ==
  IF Len(quotes) = 1 THEN quotes[1]
  ELSE getCheaperQuote(Reduce(SubSeq(quotes, 1, Len(quotes) - 1)), quotes[Len(quotes)])

\* (...).filter(notUndefined)
RECURSIVE FilterNotUndefined(_)
FilterNotUndefined(values) ==
  IF values = <<>> THEN <<>>
  ELSE values[1] \o FilterNotUndefined(Tail(values))

\* getConnectors that asks the endpoint before the configured list
getConnectorsInfoFirst ==
  IF infoConnectors # <<>> THEN infoConnectors[1]
  ELSE IF connectors # <<>> THEN connectors[1]
  ELSE <<>>

\* Client.getConnectors
getConnectors ==
  IF connectors # <<>> THEN connectors[1]
  ELSE IF infoConnectors # <<>> THEN infoConnectors[1]
  ELSE <<>>

\* a check that only catches a call with neither amount
NeitherAmount(params) ==
  params.sourceAmount = <<>> /\ params.destinationAmount = <<>>

\* params.sourceAmount ? params.destinationAmount : !params.destinationAmount
BothOrNeither(params) ==
  IF params.sourceAmount # <<>> THEN params.destinationAmount # <<>>
  ELSE ~(params.destinationAmount # <<>>)

\* Client.quote up to its first suspension
Quote(params) ==
  /\ quoteState # "pending"
  /\ last' = [Step("quote", 0, "") EXCEPT !.params = params]
  /\ UNCHANGED <<coreVars, config, payVars, connVars, firstEvent>>
  /\ IF BothOrNeither(params)
       THEN /\ quoteState' = "rejected"
            /\ quoteErr' = ValidationError
            /\ quoteReqs' = <<>>
            /\ quoteResult' = <<>>
            /\ UNCHANGED <<nextId, sentTo, pendingMessages, timer, promise, sendStatus>>
     ELSE IF StartsWith(Prefix, params.destinationAddress)
       THEN /\ quoteState' = "resolved"
            /\ quoteErr' = ""
            /\ quoteReqs' = <<>>
            /\ quoteResult' =
                 LET amount == IF params.sourceAmount # <<>> THEN params.sourceAmount
                               ELSE params.destinationAmount
                 IN <<[sourceAmount |-> amount,
                       destinationAmount |-> amount,
                       connectorAccount |-> <<>>,
                       sourceExpiryDuration |-> params.destinationExpiryDuration]>>
            /\ UNCHANGED <<nextId, sentTo, pendingMessages, timer, promise, sendStatus>>
     ELSE LET list == IF params.connectors # <<>> THEN params.connectors[1]
                      ELSE getConnectors
              new == nextId .. (nextId + Len(list) - 1)
          IN
          /\ nextId + Len(list) - 1 <= MaxReq
          /\ Register(new)
          /\ sentTo' = [i \in Ids |-> IF i \in new THEN list[i - nextId + 1]
                                     ELSE sentTo[i]]
          /\ quoteState' = "pending"
          /\ quoteErr' = ""
          /\ quoteReqs' = [k \in 1..Len(list) |-> nextId + k - 1]
          /\ quoteResult' = <<>>

\* QuoteJoin that goes on as soon as one _getQuote promise has settled,
\* with the quotes that are there by then
QuoteJoinEarly ==
  LET got == [k \in 1..Len(quoteReqs) |-> GetQuote(quoteReqs[k])]
      quotes == FilterNotUndefined([k \in 1..Len(got) |-> got[k].value])
  IN
  /\ quoteState = "pending"
  /\ \E k \in 1..Len(got) : got[k].state = "resolved"
  /\ last' = Step("join", 0, "")
  /\ UNCHANGED <<coreVars, config, payVars, connVars, nextId, sentTo, pendingMessages, timer, promise, sendStatus,
                 firstEvent, quoteReqs>>
  /\ quoteState' = "resolved"
  /\ quoteErr' = ""
  /\ IF Len(quotes) = 0
       THEN quoteResult' = <<>>
     ELSE LET bestQuote == Reduce(quotes) IN
          quoteResult' =
            <<[sourceAmount |-> <<bestQuote.source_amount>>,
               destinationAmount |-> <<bestQuote.destination_amount>>,
               connectorAccount |-> <<bestQuote.source_connector_account>>,
               sourceExpiryDuration |-> <<>>]>>

\* QuoteJoin without filter(notUndefined): reading source_amount of an
\* undefined quote throws, and the call rejects
QuoteJoinNoFilter ==
  LET got == [k \in 1..Len(quoteReqs) |-> GetQuote(quoteReqs[k])]
      quotes == FilterNotUndefined([k \in 1..Len(got) |-> got[k].value])
  IN
  /\ quoteState = "pending"
  /\ \A k \in 1..Len(got) : got[k].state = "resolved"
  /\ last' = Step("join", 0, "")
  /\ UNCHANGED <<coreVars, config, payVars, connVars, nextId, sentTo, pendingMessages, timer, promise, sendStatus,
                 firstEvent, quoteReqs>>
  /\ IF \E k \in 1..Len(got) : got[k].value = <<>>
       THEN /\ quoteState' = "rejected"
            /\ quoteErr' = "TypeError"
            /\ quoteResult' = <<>>
     ELSE IF Len(quotes) = 0
       THEN /\ quoteState' = "resolved"
            /\ quoteErr' = ""
            /\ quoteResult' = <<>>
     ELSE LET bestQuote == Reduce(quotes) IN
          /\ quoteState' = "resolved"
          /\ quoteErr' = ""
          /\ quoteResult' =
               <<[sourceAmount |-> <<bestQuote.source_amount>>,
                  destinationAmount |-> <<bestQuote.destination_amount>>,
                  connectorAccount |-> <<bestQuote.source_connector_account>>,
                  sourceExpiryDuration |-> <<>>]>>

\* Client.quote resumed: the array of _getQuote promises has settled
QuoteJoin ==
  LET got == [k \in 1..Len(quoteReqs) |-> GetQuote(quoteReqs[k])]
      quotes == FilterNotUndefined([k \in 1..Len(got) |-> got[k].value])
  IN
  /\ quoteState = "pending"
  /\ \/ \E k \in 1..Len(got) : got[k].state = "rejected"
     \/ \A k \in 1..Len(got) : got[k].state = "resolved"
  /\ last' = Step("join", 0, "")
  /\ UNCHANGED <<coreVars, config, payVars, connVars, nextId, sentTo, pendingMessages, timer, promise, sendStatus,
                 firstEvent, quoteReqs>>
  /\ IF \E k \in 1..Len(got) : got[k].state = "rejected"
       THEN /\ quoteState' = "rejected"
            /\ quoteErr' = promise[quoteReqs[
                 CHOOSE k \in 1..Len(got) : got[k].state = "rejected"]].err
            /\ quoteResult' = <<>>
     ELSE IF Len(quotes) = 0
       THEN /\ quoteState' = "resolved"
            /\ quoteErr' = ""
            /\ quoteResult' = <<>>
     ELSE LET bestQuote == Reduce(quotes) IN
          /\ quoteState' = "resolved"
          /\ quoteErr' = ""
          /\ quoteResult' =
               <<[sourceAmount |-> <<bestQuote.source_amount>>,
                  destinationAmount |-> <<bestQuote.destination_amount>>,
                  connectorAccount |-> <<bestQuote.source_connector_account>>,
                  sourceExpiryDuration |-> <<>>]>>

\* ------------------------------------------------------ sendQuotedPayment
\* the checks at the head of sendQuotedPayment: the message of the first that
\* fails, "" when all pass
ValidateAmountsOnly(params) ==
  IF params.sourceAmount = <<>> THEN SourceAmountError
  ELSE IF params.destinationAmount = <<>> THEN DestinationAmountError
  ELSE IF params.destinationAccount = <<>> THEN DestinationAccountError
  ELSE ""

Validate(params) ==
  IF params.executionCondition = <<>> /\ ~params.unsafeOptimisticTransport
    THEN ConditionError
  ELSE IF params.executionCondition # <<>> /\ params.expiresAt = <<>>
    THEN ExpiresAtError
  ELSE IF params.sourceAmount = <<>> THEN SourceAmountError
  ELSE IF params.destinationAmount = <<>> THEN DestinationAmountError
  ELSE IF params.destinationAccount = <<>> THEN DestinationAccountError
  ELSE ""

\* a comparison of the amounts as numbers
AmountsDifferAsNumbers(params) ==
  \/ LessThan(params.sourceAmount[1], params.destinationAmount[1])
  \/ GreaterThan(params.sourceAmount[1], params.destinationAmount[1])

\* params.sourceAmount !== params.destinationAmount, of two strings
AmountsDiffer(params) == params.sourceAmount # params.destinationAmount

\* a generator that returns the same uuid every time
uuidV4Repeats == <<"v4", 1>>

\* uuid.v4(): a uuid not generated before
uuidV4 ==
  <<"v4", 1 + Cardinality({k \in DOMAIN transfers : transfers[k].id[1] = "v4"})>>

\* the transfer sendQuotedPayment builds, without its ledger and ilp packet
Transfer(params) ==
  [id |-> IF params.uuid # <<>> THEN params.uuid[1] ELSE uuidV4,
   account |-> IF params.connectorAccount # <<>> THEN params.connectorAccount[1]
               ELSE params.destinationAccount[1],
   amount |-> params.sourceAmount[1],
   executionCondition |-> params.executionCondition,
   expiresAt |-> params.expiresAt]

\* Client.sendQuotedPayment
SendQuotedPayment(params) ==
  /\ payment.state # "pending"
  /\ Len(transfers) < MaxTransfers
  /\ last' = Step("pay", 0, "")
  /\ UNCHANGED <<coreVars, config, connVars, nextId, sentTo, pendingMessages, timer, promise,
                 sendStatus, firstEvent, quoteVars>>
  /\ IF Validate(params) # ""
       THEN /\ payment' = [params |-> params, state |-> "rejected",
                           err |-> Validate(params), submitted |-> 0]
            /\ UNCHANGED transfers
     ELSE IF params.connectorAccount = <<>> /\ AmountsDiffer(params)
       THEN /\ payment' = [params |-> params, state |-> "rejected",
                           err |-> LocalAmountsError, submitted |-> 0]
            /\ UNCHANGED transfers
     ELSE /\ transfers' = Append(transfers, Transfer(params))
          /\ payment' = [params |-> params, state |-> "pending", err |-> "",
                         submitted |-> 1]

\* the endpoint rejects the transfer, and the client submits it again
SendTransferSettlesRetry(ok) ==
  /\ payment.state = "pending"
  /\ last' = Step("settle", 0, "")
  /\ UNCHANGED <<coreVars, config, connVars, nextId, sentTo, pendingMessages, timer, promise,
                 sendStatus, firstEvent, quoteVars>>
  /\ IF ok THEN /\ payment' = [payment EXCEPT !.state = "resolved"]
                /\ UNCHANGED transfers
     ELSE /\ payment' = [payment EXCEPT !.submitted = @ + 1]
          /\ transfers' = Append(transfers, transfers[Len(transfers)])

\* The promise plugin.sendTransfer returned settles, and with it the promise
\* sendQuotedPayment returned.
SendTransferSettles(ok) ==
  /\ payment.state = "pending"
  /\ last' = Step("settle", 0, "")
  /\ UNCHANGED <<coreVars, config, connVars, nextId, sentTo, pendingMessages, timer, promise,
                 sendStatus, firstEvent, quoteVars, transfers>>
  /\ payment' = IF ok THEN [payment EXCEPT !.state = "resolved"]
                ELSE [payment EXCEPT !.state = "rejected", !.err = TransferError]

\* ------------------------------------------------------- waitForConnection
\* Client.connect: the endpoint is asked to connect
Connect ==
  /\ connecting' = TRUE
  /\ last' = Step("connect", 0, "")
  /\ UNCHANGED <<coreVars, config, payVars, connected, listeners, waits, nextId, sentTo,
                 pendingMessages, timer, promise, sendStatus, firstEvent, quoteVars>>

\* Client.disconnect: the endpoint is asked to disconnect
Disconnect ==
  /\ connecting' = FALSE
  /\ last' = Step("disconnect", 0, "")
  /\ UNCHANGED <<coreVars, config, payVars, connected, listeners, waits, nextId, sentTo,
                 pendingMessages, timer, promise, sendStatus, firstEvent, quoteVars>>

\* waitForConnection that asks the endpoint first
WaitForConnectionAsksEndpointFirst(w) ==
  /\ waits[w].state = "none"
  /\ \A v \in Waits : v < w => waits[v].state # "none"
  /\ last' = Step("wait", w, "")
  /\ UNCHANGED <<coreVars, config, payVars, connecting, connected, nextId, sentTo,
                 pendingMessages, timer, promise, sendStatus, firstEvent, quoteVars>>
  /\ IF connected
       THEN /\ waits' = [waits EXCEPT ![w] =
                           Wait("resolved", "", 1, FALSE)]
            /\ UNCHANGED listeners
     ELSE IF ~connecting
       THEN /\ waits' = [waits EXCEPT ![w] =
                           Wait("rejected", DisconnectedError, 0, FALSE)]
            /\ UNCHANGED listeners
     ELSE /\ waits' = [waits EXCEPT ![w] =
                         Wait("pending", "", 0, TRUE)]
          /\ listeners' = listeners \cup {w}

\* Client.waitForConnection, called for the w-th time
WaitForConnection(w) ==
  /\ waits[w].state = "none"
  /\ \A v \in Waits : v < w => waits[v].state # "none"
  /\ last' = Step("wait", w, "")
  /\ UNCHANGED <<coreVars, config, payVars, connecting, connected, nextId, sentTo,
                 pendingMessages, timer, promise, sendStatus, firstEvent, quoteVars>>
  /\ IF ~connecting
       THEN /\ waits' = [waits EXCEPT ![w] =
                           Wait("rejected", DisconnectedError, 0, FALSE)]
            /\ UNCHANGED listeners
     ELSE IF connected
       THEN /\ waits' = [waits EXCEPT ![w] =
                           Wait("resolved", "", 1, FALSE)]
            /\ UNCHANGED listeners
     ELSE /\ waits' = [waits EXCEPT ![w] =
                         Wait("pending", "", 0, TRUE)]
          /\ listeners' = listeners \cup {w}

\* one more 'connect' event, counted up to MaxEvents
Seen(events) == IF events < MaxEvents THEN events + 1 ELSE events

\* a 'connect' event whose listeners were added with on instead of once
PluginConnectsKeepsListeners ==
  /\ connected' = TRUE
  /\ waits' = [w \in Waits |->
        IF w \in listeners
          THEN [waits[w] EXCEPT !.state = "resolved",
                                !.resolveCalls = @ + 1,
                                !.events = Seen(@)]
        ELSE IF waits[w].state # "none"
          THEN [waits[w] EXCEPT !.events = Seen(@)]
        ELSE waits[w]]
  /\ last' = Step("plugin connect", 0, "")
  /\ UNCHANGED <<coreVars, config, payVars, connecting, listeners, nextId, sentTo,
                 pendingMessages, timer, promise, sendStatus, firstEvent, quoteVars>>

\* The endpoint connects and emits 'connect': the listeners added with once
\* run and are removed.
PluginConnects ==
  /\ connected' = TRUE
  /\ waits' = [w \in Waits |->
        IF w \in listeners
          THEN [waits[w] EXCEPT !.state = "resolved",
                                !.resolveCalls = @ + 1,
                                !.events = Seen(@)]
        ELSE IF waits[w].state # "none"
          THEN [waits[w] EXCEPT !.events = Seen(@)]
        ELSE waits[w]]
  /\ listeners' = {}
  /\ last' = Step("plugin connect", 0, "")
  /\ UNCHANGED <<coreVars, config, payVars, connecting, nextId, sentTo,
                 pendingMessages, timer, promise, sendStatus, firstEvent, quoteVars>>

\* The endpoint loses or closes its connection.
PluginDisconnects ==
  /\ connected
  /\ connected' = FALSE
  /\ last' = Step("plugin disconnect", 0, "")
  /\ UNCHANGED <<coreVars, config, payVars, connecting, listeners, waits, nextId, sentTo,
                 pendingMessages, timer, promise, sendStatus, firstEvent, quoteVars>>

\* ---------------------------------------------------------- Core registry
\* prefix.slice(-1) === '.'
EndsWithDelimiter(prefix) == Len(prefix) > 0 /\ prefix[Len(prefix)] = "."

\* this.clients[ledger] || null
Lookup(ledger) == IF ledger \in DOMAIN clients THEN clients[ledger] ELSE 0

\* list.indexOf(client): 0 stands for -1
IndexOf(list, client) ==
  IF \E i \in 1..Len(list) : list[i] = client
    THEN CHOOSE i \in 1..Len(list) :
           list[i] = client /\ \A j \in 1..(i - 1) : list[j] # client
  ELSE 0

\* list.splice(index, 1), where index -1 counts from the end
Splice(list, i) ==
  LET at == IF i = 0 THEN Len(list) ELSE i
  IN  IF at = 0 THEN list
      ELSE SubSeq(list, 1, at - 1) \o SubSeq(list, at + 1, Len(list))

\* client.onAny(fn) and client.offAny(fn): offAny removes one occurrence
OnAny(client) == [relay EXCEPT ![client] = @ + 1]

OffAny(client) == [relay EXCEPT ![client] = IF @ > 0 THEN @ - 1 ELSE 0]

Call(op, prefix, client) == [op |-> op, prefix |-> prefix, client |-> client]

\* Core.getClient(ledger)
GetClient(ledger) ==
  /\ coreLast' =
       IF ~EndsWithDelimiter(ledger)
         THEN CoreCall("getClient", ledger, 0, Thrown(PrefixError))
       ELSE IF Lookup(ledger) = 0
         THEN CoreCall("getClient", ledger, 0, Returned("null", 0))
       ELSE CoreCall("getClient", ledger, 0, Returned("client", Lookup(ledger)))
  /\ UNCHANGED <<registry, log, tables, coreQuote, clientVars>>

\* Core.getPlugin(ledger): client && client.getPlugin()
GetPlugin(ledger) ==
  /\ coreLast' =
       IF ~EndsWithDelimiter(ledger)
         THEN CoreCall("getPlugin", ledger, 0, Thrown(PrefixError))
       ELSE IF Lookup(ledger) = 0
         THEN CoreCall("getPlugin", ledger, 0, Returned("null", 0))
       ELSE CoreCall("getPlugin", ledger, 0, Returned("plugin", Lookup(ledger)))
  /\ UNCHANGED <<registry, log, tables, coreQuote, clientVars>>

\* addClient that registers the client before it looks at the prefix
AddClientChecksLate(prefix, client) ==
  /\ Len(log) < MaxCalls
  /\ relay' = OnAny(client)
  /\ clientList' = Append(clientList, client)
  /\ IF ~EndsWithDelimiter(prefix)
       THEN /\ coreLast' = CoreCall("addClient", prefix, client, Thrown(PrefixError))
            /\ UNCHANGED <<clients, log>>
     ELSE /\ clients' = [clients EXCEPT ![prefix] = client]
          /\ log' = Append(log, Call("add", prefix, client))
          /\ coreLast' = CoreCall("addClient", prefix, client, Returned("undefined", 0))
  /\ UNCHANGED <<tables, coreQuote, clientVars>>

\* Core.addClient(prefix, client)
AddClient(prefix, client) ==
  /\ Len(log) < MaxCalls
  /\ IF ~EndsWithDelimiter(prefix)
       THEN /\ coreLast' = CoreCall("addClient", prefix, client, Thrown(PrefixError))
            /\ UNCHANGED <<registry, log>>
     ELSE /\ relay' = OnAny(client)
          /\ clientList' = Append(clientList, client)
          /\ clients' = [clients EXCEPT ![prefix] = client]
          /\ log' = Append(log, Call("add", prefix, client))
          /\ coreLast' = CoreCall("addClient", prefix, client, Returned("undefined", 0))
  /\ UNCHANGED <<tables, coreQuote, clientVars>>

\* removeClient that leaves the entry of this.clients in place
RemoveClientKeepsEntry(prefix) ==
  /\ Len(log) < MaxCalls
  /\ IF ~EndsWithDelimiter(prefix)
       THEN /\ coreLast' = CoreCall("removeClient", prefix, 0, Thrown(PrefixError))
            /\ UNCHANGED <<registry, log>>
     ELSE IF Lookup(prefix) = 0
       THEN /\ coreLast' = CoreCall("removeClient", prefix, 0, Returned("undefined", 0))
            /\ log' = Append(log, Call("remove", prefix, 0))
            /\ UNCHANGED registry
     ELSE /\ relay' = OffAny(Lookup(prefix))
          /\ clientList' = Splice(clientList, IndexOf(clientList, Lookup(prefix)))
          /\ UNCHANGED clients
          /\ log' = Append(log, Call("remove", prefix, Lookup(prefix)))
          /\ coreLast' = CoreCall("removeClient", prefix, 0,
                                  Returned("client", Lookup(prefix)))
  /\ UNCHANGED <<tables, coreQuote, clientVars>>

\* Core.removeClient(prefix)
RemoveClient(prefix) ==
  /\ Len(log) < MaxCalls
  /\ IF ~EndsWithDelimiter(prefix)
       THEN /\ coreLast' = CoreCall("removeClient", prefix, 0, Thrown(PrefixError))
            /\ UNCHANGED <<registry, log>>
     ELSE IF Lookup(prefix) = 0
       THEN /\ coreLast' = CoreCall("removeClient", prefix, 0, Returned("undefined", 0))
            /\ log' = Append(log, Call("remove", prefix, 0))
            /\ UNCHANGED registry
     ELSE /\ relay' = OffAny(Lookup(prefix))
          /\ clientList' = Splice(clientList, IndexOf(clientList, Lookup(prefix)))
          /\ clients' = [clients EXCEPT ![prefix] = 0]
          /\ log' = Append(log, Call("remove", prefix, Lookup(prefix)))
          /\ coreLast' = CoreCall("removeClient", prefix, 0,
                                  Returned("client", Lookup(prefix)))
  /\ UNCHANGED <<tables, coreQuote, clientVars>>

\* a relay listener that tags every event with the client added first
RelayEventTagsFirst(client, event, args) ==
  [event |-> event, client |-> clientList[1], args |-> args]

\* Core._relayEvent, called by `client` with the event's name and arguments:
\* what core.emitAsync is handed
RelayEvent(client, event, args) ==
  [event |-> event, client |-> client, args |-> args]

\* client.emit(event, ...args): the client calls each of its onAny listeners
Emit(client, event, args) ==
  /\ coreLast' =
       [CoreCall("emit", <<>>, client, Returned("undefined", 0))
          EXCEPT !.event = event, !.args = args,
                 !.emitted = [k \in 1..relay[client] |-> RelayEvent(client, event, args)]]
  /\ UNCHANGED <<registry, log, tables, coreQuote, clientVars>>

\* ------------------------------------------------------------- Core.quote
\* BigNumber.toString(): the decimal without trailing zeros
RECURSIVE Normal(_)
Normal(a) ==
  IF a[2] > 0 /\ a[1] % 10 = 0 THEN Normal(<<a[1] \div 10, a[2] - 1>>) ELSE a

\* new BigNumber(a).toFixed(dp, BigNumber.ROUND_DOWN), for a >= 0
ToFixed(a, dp) ==
  IF a[2] >= dp THEN <<a[1] \div Pow10(a[2] - dp), dp>>
  ELSE <<a[1] * Pow10(dp - a[2]), dp>>

\* curve.amountAt(x) and curve.amountReverse(y) of the curve k
AmountAt(k, x) == Normal(<<x[1] * (100 \div k), x[2] + 2>>)

AmountReverse(k, y) == Normal(<<y[1] * k, y[2]>>)

\* curve.join(other).getPoints()
Join(k, other) == k * other

\* the routes of the tables from a ledger of sourceAddress to a ledger of
\* destinationAddress
RoutesFor(sourceAddress, destinationAddress) ==
  {r \in tables : /\ StartsWith(r.sourceLedger, sourceAddress)
                  /\ StartsWith(r.destinationLedger, destinationAddress)}

\* the curve of the connector's own pair of ledgers that route r starts with
PairCurve(r) ==
  (CHOOSE h \in tables : /\ h.sourceLedger = r.sourceLedger
                         /\ h.destinationLedger = r.nextLedger).curve[1]

\* the hop the tables make of route r: with the source amount fixed, the
\* final amount is known where the route has a curve; with the final amount
\* fixed, the source amount is
HopOf(r, sourceAmount, finalAmount) ==
  LET source == IF sourceAmount # <<>> THEN sourceAmount
                ELSE IF r.curve = <<>> THEN <<>>
                ELSE <<AmountReverse(r.curve[1], finalAmount[1])>>
      final == IF finalAmount # <<>> THEN finalAmount
               ELSE IF r.curve = <<>> THEN <<>>
               ELSE <<AmountAt(r.curve[1], sourceAmount[1])>>
  IN  [sourceLedger |-> r.sourceLedger,
       destinationLedger |-> r.nextLedger,
       finalLedger |-> r.destinationLedger,
       destinationCreditAccount |-> r.connector,
       minMessageWindow |-> r.minMessageWindow,
       sourceAmount |-> source,
       destinationAmount |-> IF source = <<>> THEN <<>>
                             ELSE <<AmountAt(PairCurve(r), source[1])>>,
       finalAmount |-> final,
       liquidityCurve |-> r.curve]

\* tables.findBestHopForSourceAmount(source, destination, amount): <<>> where
\* the tables have no route
findBestHopForSourceAmount(source, destination, amount) ==
  IF RoutesFor(source, destination) = {} THEN <<>>
  ELSE <<HopOf(CHOOSE r \in RoutesFor(source, destination) : TRUE, amount, <<>>)>>

\* tables.findBestHopForDestinationAmount(source, destination, amount)
findBestHopForDestinationAmount(source, destination, amount) ==
  IF RoutesFor(source, destination) = {} THEN <<>>
  ELSE <<HopOf(CHOOSE r \in RoutesFor(source, destination) : TRUE, <<>>, amount)>>

\* Core._findBestHopForAmount
findBestHopForAmount(sourceLedger, destinationAddress, sourceAmount, destinationAmount) ==
  IF sourceAmount = <<>>
    THEN findBestHopForDestinationAmount(sourceLedger, destinationAddress, destinationAmount)
  ELSE findBestHopForSourceAmount(sourceLedger, destinationAddress, sourceAmount)

\* a duration that is neither undefined nor 0
Truthy(d) == d # <<>> /\ d[1] # 0

\* parseDuration(d): d ? parseFloat(d) : undefined
parseDuration(d) == IF Truthy(d) THEN d ELSE <<>>

\* getExpiryDurations(sourceExpiryDuration, destinationExpiryDuration, minMessageWindow)
getExpiryDurations(s, d, minMessageWindow) ==
  [sourceExpiryDuration |-> IF Truthy(s) THEN s[1] ELSE d[1] + minMessageWindow,
   destinationExpiryDuration |-> IF Truthy(d) THEN d[1] ELSE s[1] - minMessageWindow]

\* the destinationExpiryDuration of _quote: 5 where the caller gave neither
DestinationExpiry(query) ==
  IF Truthy(parseDuration(query.sourceExpiryDuration))
       \/ Truthy(query.destinationExpiryDuration)
    THEN parseDuration(query.destinationExpiryDuration)
  ELSE <<5>>

\* hopToQuote(hop)
hopToQuote(hop) ==
  [nextLedger |-> hop.destinationLedger,
   destinationLedger |-> hop.finalLedger,
   sourceAmount |-> hop.sourceAmount,
   destinationAmount |-> hop.finalAmount,
   minMessageWindow |-> hop.minMessageWindow,
   liquidityCurve |-> hop.liquidityCurve]

\* Object.assign(durations, fields, {connectorAccount, sourceLedger})
MakeQuote(durations, fields, connectorAccount, sourceLedger) ==
  [sourceLedger |-> sourceLedger,
   connectorAccount |-> connectorAccount,
   nextLedger |-> fields.nextLedger,
   destinationLedger |-> fields.destinationLedger,
   sourceAmount |-> fields.sourceAmount,
   destinationAmount |-> fields.destinationAmount,
   minMessageWindow |-> fields.minMessageWindow,
   liquidityCurve |-> fields.liquidityCurve,
   sourceExpiryDuration |-> durations.sourceExpiryDuration,
   destinationExpiryDuration |-> durations.destinationExpiryDuration]

\* plugin.getAccount() of the plugin of a client: its prefix + 'mark'
GetAccount(client) == PrefixOf(client) \o <<"mark">>

Settle(query, state, result, err) ==
  [NoCoreQuote EXCEPT !.state = state, !.query = query, !.result = result, !.err = err]

\* _quote that treats a missing hop as an error
NoHopRejects(query) == Settle(query, "rejected", <<>>, "no route")

\* _quote without a hop: return null
NoHop(query) == Settle(query, "resolved", <<>>, "")

\* the head hop _quote looks up before its request: only with a source amount
HeadHop(query, hop) ==
  IF query.sourceAmount # <<>>
    THEN findBestHopForSourceAmount(hop.sourceLedger, hop.destinationCreditAccount,
                                    query.sourceAmount)
  ELSE <<>>

\* the quote query _quote hands to _getQuote, undefined fields as <<>>
TailQuery(query, hop, headHop) ==
  [source_address |-> hop.destinationCreditAccount,
   source_amount |->
     IF query.sourceAmount = <<>> THEN <<>>
     ELSE <<ToFixed(headHop[1].destinationAmount[1], 0)>>,
   destination_address |-> query.destinationAddress,
   destination_amount |-> IF query.sourceAmount = <<>> THEN hop.finalAmount ELSE <<>>,
   source_expiry_duration |->
     IF Truthy(parseDuration(query.sourceExpiryDuration)) /\ headHop # <<>>
       THEN <<query.sourceExpiryDuration[1] - headHop[1].minMessageWindow>>
     ELSE <<>>,
   destination_expiry_duration |-> DestinationExpiry(query),
   slippage |-> "0"]

\* _quote with a hop, up to its return or its yield
WithHop(query, hop) ==
  IF Lookup(hop.sourceLedger) = 0
    THEN Settle(query, "rejected", <<>>, NullError)
  ELSE
    LET localQuote ==
          MakeQuote(getExpiryDurations(parseDuration(query.sourceExpiryDuration),
                                       DestinationExpiry(query), hop.minMessageWindow),
                    hopToQuote(hop), GetAccount(Lookup(hop.sourceLedger)),
                    hop.sourceLedger)
        headHop == HeadHop(query, hop)
    IN  IF localQuote.sourceAmount # <<>> /\ localQuote.destinationAmount # <<>>
          THEN [Settle(query, "resolved", <<localQuote>>, "")
                  EXCEPT !.hop = <<hop>>, !.localQuote = <<localQuote>>]
        ELSE IF Lookup(hop.destinationLedger) = 0
          THEN [Settle(query, "rejected", <<>>, NullError)
                  EXCEPT !.hop = <<hop>>, !.localQuote = <<localQuote>>,
                         !.headHop = headHop]
        ELSE [NoCoreQuote EXCEPT
                !.state = "waiting", !.query = query, !.hop = <<hop>>,
                !.localQuote = <<localQuote>>, !.headHop = headHop,
                !.requests = <<[client |-> Lookup(hop.destinationLedger),
                                connector |-> hop.destinationCreditAccount,
                                query |-> TailQuery(query, hop, headHop)]>>]

\* Core.quote(query): _quote up to its return or its yield. One call is
\* followed at a time: calls share nothing but the registry and the tables.
CoreQuote(query) ==
  /\ coreQuote.state # "waiting"
  /\ coreQuote' =
       LET hop == findBestHopForAmount(query.sourceAddress, query.destinationAddress,
                                       query.sourceAmount, query.destinationAmount)
       IN  IF hop = <<>> THEN NoHop(query) ELSE WithHop(query, hop[1])
  /\ UNCHANGED <<registry, log, coreLast, tables, clientVars>>

\* a composition that keeps the head hop's window as it is
ComposeHeadWindow(query, headHop, tailQuote, connectorAccount, sourceLedger) ==
  MakeQuote(getExpiryDurations(parseDuration(query.sourceExpiryDuration),
                               DestinationExpiry(query), headHop.minMessageWindow),
            [nextLedger |-> headHop.destinationLedger,
             destinationLedger |-> tailQuote.destination_ledger,
             sourceAmount |-> headHop.sourceAmount,
             destinationAmount |-> <<tailQuote.destination_amount>>,
             minMessageWindow |-> headHop.minMessageWindow,
             liquidityCurve |->
               IF tailQuote.liquidity_curve = <<>> THEN <<>>
               ELSE <<Join(headHop.liquidityCurve[1], tailQuote.liquidity_curve[1])>>],
            connectorAccount, sourceLedger)

\* the quote _quote composes of the head hop and the tail quote
Compose(query, headHop, tailQuote, connectorAccount, sourceLedger) ==
  LET minMessageWindow ==
        headHop.minMessageWindow
          + (tailQuote.source_expiry_duration - tailQuote.destination_expiry_duration)
  IN  MakeQuote(getExpiryDurations(parseDuration(query.sourceExpiryDuration),
                                   DestinationExpiry(query), minMessageWindow),
                [nextLedger |-> headHop.destinationLedger,
                 destinationLedger |-> tailQuote.destination_ledger,
                 sourceAmount |-> headHop.sourceAmount,
                 destinationAmount |-> <<tailQuote.destination_amount>>,
                 minMessageWindow |-> minMessageWindow,
                 liquidityCurve |->
                   IF tailQuote.liquidity_curve = <<>> THEN <<>>
                   ELSE <<Join(headHop.liquidityCurve[1], tailQuote.liquidity_curve[1])>>],
                connectorAccount, sourceLedger)

\* The promise of _getQuote resolves with the next connector's quote or, the
\* connector having declined, failed or not answered in time, with undefined
\* (<<>>): _quote goes on after its yield.
TailQuoteArrives(tailQuote) ==
  /\ coreQuote.state = "waiting"
  /\ coreQuote' =
       IF tailQuote = <<>>
         THEN [coreQuote EXCEPT !.state = "resolved", !.result = <<>>]
       ELSE
         LET query == coreQuote.query
             hop == coreQuote.hop[1]
             headHop ==
               IF query.destinationAmount # <<>>
                 THEN findBestHopForDestinationAmount(
                        hop.sourceLedger, hop.destinationCreditAccount,
                        <<tailQuote[1].source_amount>>)
               ELSE coreQuote.headHop
         IN  [coreQuote EXCEPT
                !.state = "resolved",
                !.tailQuote = tailQuote,
                !.headHop = headHop,
                !.result = <<Compose(query, headHop[1], tailQuote[1],
                                     coreQuote.localQuote[1].connectorAccount,
                                     hop.sourceLedger)>>]
  /\ UNCHANGED <<registry, log, coreLast, tables, clientVars>>

\* The correlator under requests sent one by one.
Next ==
  \/ SendAndReceiveMessage
  \/ \E id \in Ids : TimerFire(id)
  \/ \E id \in Ids : SendFail(id)
  \/ \E m \in Messages : OnIncomingMessage(m)
  \/ Tick

Spec == Init /\ [][Next]_vars

\* The client under calls of Client.quote, with connectors that answer with
\* the protocol's responses, late or not at all, and sends that may fail.
QuoteInit == Init /\ messageTimeout = 1

QuoteNext ==
  \/ \E params \in Params : Quote(Unasked(params))
  \/ QuoteJoin
  \/ \E id \in Ids : TimerFire(id)
  \/ \E id \in Ids : SendFail(id)
  \/ \E m \in Responses : OnIncomingMessage(m)
  \/ Tick

QuoteSpec == QuoteInit /\ [][QuoteNext]_vars

\* QuoteSpec with the scheduling the runtime gives: time passes while a timer
\* is armed, a due timer's callback runs, and the generator of Client.quote
\* is resumed once every promise it waits for has settled. Nothing is assumed
\* of the connectors or of the endpoint's sends.
FairQuoteSpec ==
  /\ QuoteInit
  /\ [][QuoteNext]_vars
  /\ WF_vars(Tick)
  /\ \A id \in Ids : WF_vars(TimerFire(id))
  /\ WF_vars(QuoteJoin)

\* The client under calls of Client.quote with every combination of connector
\* list in the params, in the configuration and in the endpoint's info, with
\* connectors that do not answer: each request times out or fails to be sent.
CallInit ==
  /\ ClientInit
  /\ CoreInit
  /\ messageTimeout = 1
  /\ connectors \in ConfiguredLists
  /\ infoConnectors \in InfoLists
  /\ answer = <<>>
  /\ connected = FALSE

CallNext ==
  \/ \E params \in CallParams : Quote(params)
  \/ QuoteJoin
  \/ \E id \in Ids : TimerFire(id)
  \/ \E id \in Ids : SendFail(id)
  \/ Tick

CallSpec == CallInit /\ [][CallNext]_vars

\* The client under calls of Client.sendQuotedPayment, one at a time, on an
\* endpoint that accepts or rejects each transfer.
PayNext ==
  \/ \E params \in PayParams : SendQuotedPayment(params)
  \/ \E ok \in BOOLEAN : SendTransferSettles(ok)

PayInit == Init /\ messageTimeout = 1

PaySpec == PayInit /\ [][PayNext]_vars

\* The client under connect, disconnect and waitForConnection, on an endpoint
\* that connects (again and again) and disconnects when it will, and that may
\* be connected already when the client is constructed.
ConnInit ==
  /\ ClientInit
  /\ CoreInit
  /\ messageTimeout = 1
  /\ connectors = <<>>
  /\ infoConnectors = <<>>
  /\ answer = <<>>
  /\ connected \in BOOLEAN

ConnNext ==
  \/ Connect
  \/ Disconnect
  \/ \E w \in Waits : WaitForConnection(w)
  \/ PluginConnects
  \/ PluginDisconnects

ConnSpec == ConnInit /\ [][ConnNext]_vars

\* The client under calls of Client.quote with connectors that answer
\* deterministically: each connector answers every request the same way, with
\* a quote or an error before the timeout, with a quote after it, not at all,
\* or by being unreachable (the send fails).
DetQuotes ==
  {[source_amount |-> <<1, 0>>, destination_amount |-> <<1, 0>>],
   [source_amount |-> <<2, 0>>, destination_amount |-> <<2, 0>>]}

Behaviours ==
  [kind : {"quote", "late"}, quote : {<<q>> : q \in DetQuotes}]
  \cup [kind : {"error", "silent", "unreachable"}, quote : {<<>>}]

\* the connector lists a call may give: ordered, with or without repetition
ConnectorLists ==
  {FirstConnectors(n) : n \in 0..MaxConnectors} \cup {<<c, 1>> : c \in Connectors}

DetParams ==
  [sourceAmount : {<<(<<1, 0>>)>>},
   destinationAmount : {<<>>},
   destinationAddress : {LocalAddress, RemoteAddress},
   destinationExpiryDuration : {<<>>},
   connectors : {<<list>> : list \in ConnectorLists}]

DetInit ==
  /\ ClientInit
  /\ CoreInit
  /\ messageTimeout = 1
  /\ connectors = <<>>
  /\ infoConnectors = <<>>
  /\ answer \in [Connectors -> Behaviours]
  /\ connected = FALSE

\* the behaviour of the connector request id went to
AnswerTo(id) == answer[sentTo[id]]

\* the connector's response to request id is delivered: a late one after the
\* timeout, any other before it; a response may be delivered again
Respond(id) ==
  /\ sendStatus[id] = "sent"
  /\ AnswerTo(id).kind \in {"quote", "late", "error"}
  /\ AnswerTo(id).kind = "late" => timer[id].st = "fired"
  /\ OnIncomingMessage([hasData |-> TRUE, id |-> id,
                        method |-> IF AnswerTo(id).kind = "error" THEN "error"
                                   ELSE "quote_response",
                        quote |-> AnswerTo(id).quote])

\* the timeout of a request whose connector answers late or not at all
Expire(id) ==
  /\ sendStatus[id] = "sent"
  /\ AnswerTo(id).kind \in {"late", "silent"}
  /\ TimerFire(id)

\* the send to an unreachable connector fails
Unreachable(id) ==
  /\ sendStatus[id] = "sent"
  /\ AnswerTo(id).kind = "unreachable"
  /\ SendFail(id)

DetNext ==
  \/ \E params \in DetParams : Quote(params)
  \/ QuoteJoin
  \/ \E id \in Ids : Respond(id)
  \/ \E id \in Ids : Expire(id)
  \/ \E id \in Ids : Unreachable(id)
  \/ Tick

DetSpec == DetInit /\ [][DetNext]_vars

\* Core under calls of addClient, removeClient, getClient and getPlugin with
\* prefixes and with strings that are none, and clients that emit events.
RegistryNext ==
  \/ \E prefix \in LocalLedgers \cup BareNames, client \in CoreClients :
       AddClient(prefix, client)
  \/ \E prefix \in Ledgers \cup BareNames : RemoveClient(prefix)
  \/ \E ledger \in Ledgers \cup BareNames : GetClient(ledger)
  \/ \E ledger \in Ledgers \cup BareNames : GetPlugin(ledger)
  \/ \E client \in CoreClients, event \in EventNames, args \in EventArgs :
       Emit(client, event, args)

RegistryInit == Init /\ messageTimeout = 1

RegistrySpec == RegistryInit /\ [][RegistryNext]_vars

\* Core under calls of Core.quote, over routing tables with no route, with the
\* local route only, and with a route to a remote ledger with or without a
\* curve; with clients for both local ledgers, or for one of them only.
CoreQuoteInit ==
  /\ ClientInit
  /\ messageTimeout = 1 /\ connectors = <<>> /\ infoConnectors = <<>>
  /\ answer = <<>> /\ connected = FALSE
  /\ tables \in RoutingTables
  /\ \E registered \in {<<1, 2>>, <<1>>, <<2>>} :
       /\ clients = [p \in Ledgers |->
                       IF \E i \in 1..Len(registered) : PrefixOf(registered[i]) = p
                         THEN registered[CHOOSE i \in 1..Len(registered) :
                                           PrefixOf(registered[i]) = p]
                       ELSE 0]
       /\ clientList = registered
       /\ relay = [c \in CoreClients |->
                     IF \E i \in 1..Len(registered) : registered[i] = c THEN 1 ELSE 0]
       /\ log = [i \in 1..Len(registered) |->
                   Call("add", PrefixOf(registered[i]), registered[i])]
  /\ coreLast = CoreCall("init", <<>>, 0, Returned("undefined", 0))
  /\ coreQuote = NoCoreQuote

CoreQuoteNext ==
  \/ \E query \in CoreQueries : CoreQuote(query)
  \/ \E tailQuote \in {<<>>} \cup {<<t>> : t \in TailQuotes} : TailQuoteArrives(tailQuote)

CoreQuoteSpec == CoreQuoteInit /\ [][CoreQuoteNext]_vars

\* Core under calls of Core.quote with queries that name both amounts
BothAmountsNext ==
  \/ \E query \in BothAmountQueries : CoreQuote(query)
  \/ \E tailQuote \in {<<>>} \cup {<<t>> : t \in TailQuotes} : TailQuoteArrives(tailQuote)

BothAmountsSpec == CoreQuoteInit /\ [][BothAmountsNext]_vars

\* ================================================================ claims
Issued(id) == sendStatus[id] # "none"

Rejected(id, e) == promise[id].state = "rejected" /\ promise[id].err = e

\* the step just taken delivered a message of one of `methods` under `id`
DeliveredNow(id, methods) ==
  last'.op = "incoming" /\ last'.id = id /\ last'.method \in methods

\* new BigNumber(a).equals(b)
Equal(a, b) == ~LessThan(a, b) /\ ~GreaterThan(a, b)

\* the outcome of every request is the one its first event fixes, and a timer's
\* callback has run only where the timeout is that first event
C1_FirstEventFixesOutcome ==
  \A id \in Ids :
    /\ firstEvent[id].ev = "none" =>
         promise[id].state = (IF Issued(id) THEN "pending" ELSE "none")
    /\ firstEvent[id].ev = "quote_response" =>
         promise[id].state = "resolved" /\ promise[id].quote = firstEvent[id].quote
    /\ firstEvent[id].ev = "error" => Rejected(id, RemoteError)
    /\ firstEvent[id].ev = "timeout" => Rejected(id, TimeoutError)
    /\ firstEvent[id].ev = "sendfail" => Rejected(id, TransportError)
    /\ timer[id].st = "fired" => firstEvent[id].ev = "timeout"

\* C1: every request is settled exactly once. Its outcome is the one its
\* first event fixes (the first response delivered for its id, its timer, the
\* failure of its send) and stays pending until then; a settled outcome never
\* changes; and a timer's callback runs only for a request that no response
\* and no send failure has settled before, so that it is the timeout that
\* settles it.
C1_SettledExactlyOnce ==
  /\ []C1_FirstEventFixesOutcome
  /\ [][\A id \in Ids : Settled(id) => promise'[id] = promise[id]]_vars

\* C1 witness: a request resolved by a response, after which its send failed
\* and a second response arrived, while another request has timed out
C1_Witness ==
  \E id, other \in Ids :
    /\ promise[id].state = "resolved"
    /\ sendStatus[id] = "failed"
    /\ last.op = "incoming" /\ last.id = id /\ last.method = "error"
    /\ timer[id].st = "cleared"
    /\ Rejected(other, TimeoutError)

\* C2: an id is a key of pendingMessages exactly while its request is
\* unsettled (so a request that has timed out has no entry left).
C2_EntryOnlyWhileUnsettled ==
  \A id \in Ids : id \in pendingMessages <=> promise[id].state = "pending"

\* a request whose send has not failed and that no response has been delivered
\* for can only be settled by its timeout
C3_TimeoutOnlyOutcome ==
  \A id \in Ids :
    (/\ sendStatus[id] = "sent"
     /\ firstEvent[id].ev \notin {"quote_response", "error"}
     /\ Settled(id))
    => Rejected(id, TimeoutError)

\* C3: a request whose send has not failed and that no response has been
\* delivered for is, once settled, rejected with the timeout error; and a
\* request becomes rejected with the timeout error only in a step in which
\* its timer, armed with the client's messageTimeout, has been armed for at
\* least messageTimeout.
C3_TimeoutNotEarlier ==
  /\ []C3_TimeoutOnlyOutcome
  /\ [][\A id \in Ids :
         (~Rejected(id, TimeoutError) /\ Rejected(id, TimeoutError)')
         => /\ timer[id].st = "armed"
            /\ timer[id].delay = messageTimeout
            /\ timer[id].elapsed >= messageTimeout
            /\ timer'[id].st = "fired"]_vars

\* C3 witness: with messageTimeout 2, a request whose send did not fail and
\* that got no response has been rejected with the timeout error
C3_Witness ==
  \E id \in Ids :
    /\ messageTimeout = 2
    /\ sendStatus[id] = "sent"
    /\ firstEvent[id].ev = "timeout"
    /\ Rejected(id, TimeoutError)
    /\ last.op = "timer" /\ last.id = id

\* C4: delivering an error or a quote_response under the id of a request that
\* has timed out changes no request's outcome, and leaves the entry and the
\* timer of every other request as they are.
C4_LateResponseDropped ==
  [][\A id \in Ids :
       (DeliveredNow(id, {"error", "quote_response"}) /\ Rejected(id, TimeoutError))
       => /\ promise' = promise
          /\ \A j \in Ids \ {id} :
               /\ (j \in pendingMessages') <=> (j \in pendingMessages)
               /\ timer'[j] = timer[j]]_vars

\* C4 witness: a response has just been delivered under the id of a request
\* that had timed out before, while another request is pending
C4_Witness ==
  \E id, other \in Ids :
    /\ last.op = "incoming" /\ last.id = id
    /\ last.method \in {"error", "quote_response"}
    /\ firstEvent[id].ev = "timeout"
    /\ Rejected(id, TimeoutError)
    /\ timer[id].st = "fired"
    /\ sendStatus[id] = "sent"
    /\ id \notin pendingMessages
    /\ other \in pendingMessages
    /\ promise[other].state = "pending"
    /\ timer[other].st = "armed"

\* C5: delivering a message without data, or under an id that is no key of
\* pendingMessages, or under a pending id with a method that is neither
\* 'error' nor 'quote_response', leaves pendingMessages, every timer and
\* every request's outcome unchanged.
C5_OtherMessagesIgnored ==
  [][(/\ last'.op = "incoming"
      /\ \/ last'.method \notin {"error", "quote_response"}
         \/ last'.id \notin pendingMessages)
     => UNCHANGED <<pendingMessages, timer, promise>>]_vars

\* C5 witness: a message of another method has just been delivered under the
\* id of a pending request, which is still waiting
C5_Witness ==
  \E id \in Ids :
    /\ last.op = "incoming" /\ last.id = id /\ last.method = "quote_request"
    /\ id \in pendingMessages
    /\ promise[id].state = "pending"
    /\ timer[id].st = "armed"

\* ------------------------------------------------- the quote fan-out
\* the connectors (positions of quoteReqs) whose request a quote_response
\* settled, and the quote each returned
Answered == {k \in 1..Len(quoteReqs) : firstEvent[quoteReqs[k]].ev = "quote_response"}

Declined == {k \in 1..Len(quoteReqs) :
               firstEvent[quoteReqs[k]].ev \in {"error", "timeout", "sendfail"}}

QuoteOf(k) == firstEvent[quoteReqs[k]].quote[1]

\* the quote call resolved with the quote connector k returned
ResolvedWith(k) ==
  /\ quoteState = "resolved"
  /\ quoteResult # <<>>
  /\ quoteResult[1].connectorAccount = <<sentTo[quoteReqs[k]]>>
  /\ quoteResult[1].sourceAmount = <<QuoteOf(k).source_amount>>
  /\ quoteResult[1].destinationAmount = <<QuoteOf(k).destination_amount>>

Joined == last.op = "join"

\* C6: when the only connector of a quote call answers with an error message,
\* its request is rejected with the remote error and the quote call resolves
\* with undefined.
C6_SingleDeclineResolvesUndefined ==
  (/\ Joined
   /\ Len(quoteReqs) = 1
   /\ firstEvent[quoteReqs[1]].ev = "error")
  => /\ Rejected(quoteReqs[1], RemoteError)
     /\ quoteState = "resolved"
     /\ quoteResult = <<>>

\* C6 witness: a quote call over one connector has been joined after that
\* connector answered with an error message
C6_Witness ==
  /\ Joined
  /\ Len(quoteReqs) = 1
  /\ firstEvent[quoteReqs[1]].ev = "error"
  /\ Rejected(quoteReqs[1], RemoteError)
  /\ quoteState = "resolved"

\* C7: a quote fan-out never rejects (a quote call rejects only with the
\* validation error, before any request is sent); once joined it has resolved,
\* with the quote of one of the connectors that a quote_response settled if
\* there is one, and with undefined exactly when every connector declined.
C7_FanOutNeverRejects ==
  /\ quoteState = "rejected" => quoteReqs = <<>> /\ quoteErr = ValidationError
  /\ Joined =>
       /\ quoteState = "resolved"
       /\ Answered \cup Declined = 1..Len(quoteReqs)
       /\ quoteResult = <<>> <=> Declined = 1..Len(quoteReqs)
       /\ Answered # {} => \E k \in Answered : ResolvedWith(k)

\* C7 witness: a fan-out over two connectors, one answering after the other
\* timed out, has resolved with the quote of the one
C7_Witness ==
  /\ Joined
  /\ Len(quoteReqs) = 2
  /\ \E k \in Answered : ResolvedWith(k)
  /\ \E k \in Declined : firstEvent[quoteReqs[k]].ev = "timeout"

\* C8: when exactly two connectors returned quotes, whichever is listed
\* first: with equal destination amounts the quote with the strictly smaller
\* source_amount is returned, and with equal source amounts the quote with the
\* strictly larger destination_amount is returned.
C8_CheapestOfTwo ==
  Joined =>
    \A a, b \in Answered :
      (a # b /\ Cardinality(Answered) = 2) =>
        /\ (/\ Equal(QuoteOf(a).destination_amount, QuoteOf(b).destination_amount)
            /\ LessThan(QuoteOf(a).source_amount, QuoteOf(b).source_amount))
           => ResolvedWith(a)
        /\ (/\ Equal(QuoteOf(a).source_amount, QuoteOf(b).source_amount)
            /\ GreaterThan(QuoteOf(a).destination_amount, QuoteOf(b).destination_amount))
           => ResolvedWith(a)

\* C8 witness: the second of two connectors returned the larger destination
\* amount for the same source amount, and its quote was returned
C8_Witness ==
  /\ Joined
  /\ Answered = {1, 2}
  /\ Equal(QuoteOf(1).source_amount, QuoteOf(2).source_amount)
  /\ GreaterThan(QuoteOf(2).destination_amount, QuoteOf(1).destination_amount)
  /\ ResolvedWith(2)
  /\ ~ResolvedWith(1)

\* all collected quotes are equal in source_amount and in destination_amount
AllTied ==
  \A a, b \in Answered :
    /\ Equal(QuoteOf(a).source_amount, QuoteOf(b).source_amount)
    /\ Equal(QuoteOf(a).destination_amount, QuoteOf(b).destination_amount)

Min(S) == CHOOSE x \in S : \A y \in S : x <= y
Max(S) == CHOOSE x \in S : \A y \in S : x >= y

\* C9, as claimed: among fully tied quotes the one of the connector listed
\* first is returned.
C9_TieKeepsLeft ==
  (Joined /\ Cardinality(Answered) >= 2 /\ AllTied)
  => quoteResult[1].connectorAccount = <<sentTo[quoteReqs[Min(Answered)]]>>

\* C9, amended: among fully tied quotes the one of the connector listed last
\* is returned (of two tied quotes getCheaperQuote keeps the right one).
C9_TieKeepsRight ==
  (Joined /\ Cardinality(Answered) >= 2 /\ AllTied)
  => ResolvedWith(Max(Answered))

\* C9 witness: two connectors returned "1" for "1" and "1.0" for "1", and the
\* quote of the second was returned
C9_Witness ==
  /\ Joined
  /\ Answered = {1, 2}
  /\ AllTied
  /\ QuoteOf(1) # QuoteOf(2)
  /\ quoteResult[1].connectorAccount = <<sentTo[quoteReqs[2]]>>

\* C10: the quote returned has a source_amount that is not strictly greater
\* than the source_amount of any collected quote.
C10_SourceAmountMinimal ==
  (Joined /\ quoteResult # <<>>)
  => \A k \in Answered :
       ~GreaterThan(quoteResult[1].sourceAmount[1], QuoteOf(k).source_amount)

\* ------------------------------------------------- the quote call itself
\* everything a request leaves behind: the id it consumed, the message sent,
\* the pending entry, the timer, the promise
requestState == <<nextId, sentTo, sendStatus, pendingMessages, timer, promise>>

\* the step just taken was a quote call
QuoteCalled == last'.op = "quote"

\* a well-formed quote call for a remote destination
RemoteCall(params) ==
  /\ (params.sourceAmount # <<>>) # (params.destinationAmount # <<>>)
  /\ params.destinationAddress = RemoteAddress

\* C11: a quote call with both or neither of sourceAmount and
\* destinationAmount rejects with 'Should provide source or destination amount
\* but not both', and the call sends no message, registers no pending entry
\* and arms no timer.
C11_BothOrNeitherRejects ==
  [][(/\ QuoteCalled
      /\ (last'.params.sourceAmount # <<>>) = (last'.params.destinationAmount # <<>>))
     => /\ quoteState' = "rejected"
        /\ quoteErr' = ValidationError
        /\ UNCHANGED requestState]_vars

\* C11 witness: a call with both amounts, a remote destination and a connector
\* to ask has just been rejected, and no request was ever issued
C11_Witness ==
  /\ last.op = "quote"
  /\ last.params.sourceAmount # <<>>
  /\ last.params.destinationAmount # <<>>
  /\ last.params.destinationAddress = RemoteAddress
  /\ last.params.connectors = <<FirstConnectors(1)>>
  /\ quoteState = "rejected"
  /\ quoteErr = ValidationError
  /\ \A id \in Ids : ~Issued(id)

\* the one amount a well-formed call supplies
Supplied(params) ==
  IF params.sourceAmount # <<>> THEN params.sourceAmount ELSE params.destinationAmount

\* C12: a quote call with one amount whose destination is on the client's own
\* ledger resolves, whatever connectors are given or configured, with
\* destinationAmount and sourceAmount both the supplied amount and with the
\* caller's destinationExpiryDuration as the expiry duration, and sends no
\* message and registers no pending entry.
C12_SameLedgerQuote ==
  [][(/\ QuoteCalled
      /\ (last'.params.sourceAmount # <<>>) # (last'.params.destinationAmount # <<>>)
      /\ last'.params.destinationAddress = LocalAddress)
     => /\ quoteState' = "resolved"
        /\ quoteResult' # <<>>
        /\ quoteResult'[1].sourceAmount = Supplied(last'.params)
        /\ quoteResult'[1].destinationAmount = Supplied(last'.params)
        /\ quoteResult'[1].sourceExpiryDuration = last'.params.destinationExpiryDuration
        /\ quoteResult'[1].connectorAccount = <<>>
        /\ UNCHANGED requestState]_vars

\* C12 witness: a same-ledger call with a destination amount and an expiry
\* duration has resolved on a client that has connectors configured, given
\* and named by the endpoint
C12_Witness ==
  /\ last.op = "quote"
  /\ last.params.destinationAddress = LocalAddress
  /\ last.params.sourceAmount = <<>>
  /\ last.params.destinationExpiryDuration = <<4>>
  /\ last.params.connectors = <<FirstConnectors(1)>>
  /\ connectors = <<(<<MaxConnectors>>)>>
  /\ infoConnectors = <<FirstConnectors(MaxConnectors)>>
  /\ quoteState = "resolved"
  /\ quoteResult = <<[sourceAmount |-> <<(<<1, 0>>)>>,
                      destinationAmount |-> <<(<<1, 0>>)>>,
                      connectorAccount |-> <<>>,
                      sourceExpiryDuration |-> <<4>>]>>

\* the quotes the connectors of `list` answer with before the timeout, in
\* list order, each with its connector as source_connector_account
RECURSIVE InTimeQuotes(_)
InTimeQuotes(list) ==
  IF list = <<>> THEN <<>>
  ELSE (IF answer[list[1]].kind = "quote"
          THEN <<[source_amount |-> answer[list[1]].quote[1].source_amount,
                  destination_amount |-> answer[list[1]].quote[1].destination_amount,
                  source_connector_account |-> list[1]]>>
        ELSE <<>>)
       \o InTimeQuotes(Tail(list))

\* what a quote call for a remote destination returns when asking `list`:
\* a function of the list and of the connectors' answers alone
ResultOf(list) ==
  IF InTimeQuotes(list) = <<>> THEN <<>>
  ELSE LET best == Reduce(InTimeQuotes(list)) IN
       <<[sourceAmount |-> <<best.source_amount>>,
          destinationAmount |-> <<best.destination_amount>>,
          connectorAccount |-> <<best.source_connector_account>>,
          sourceExpiryDuration |-> <<>>]>>

\* the connectors the latest quote call asked, in order
Asked == [k \in 1..Len(quoteReqs) |-> sentTo[quoteReqs[k]]]

\* the requests of earlier quote calls
Earlier == {id \in Ids : Issued(id) /\ \A k \in 1..Len(quoteReqs) : quoteReqs[k] # id}

\* C13: with connectors that answer deterministically, every quote call for
\* a remote destination asks the connectors its params name and resolves
\* with a result that depends on these connectors' answers alone: two calls
\* with the same params return the same result, whatever calls, timeouts,
\* errors and late responses came before.
C13_QuoteIdempotent ==
  /\ [][(QuoteCalled /\ RemoteCall(last'.params))
        => [k \in 1..Len(quoteReqs') |-> sentTo'[quoteReqs'[k]]]
             = last'.params.connectors[1]]_vars
  /\ [](Joined => quoteState = "resolved" /\ quoteResult = ResultOf(Asked))

\* C13 witness: a quote call has resolved with a connector's quote after an
\* earlier call that asked the same connector had resolved with it
C13_Witness ==
  /\ Joined
  /\ quoteResult = ResultOf(Asked)
  /\ quoteResult # <<>>
  /\ Len(quoteReqs) = 1
  /\ \E id \in Earlier :
       /\ sentTo[id] = Asked[1]
       /\ firstEvent[id].ev = "quote_response"
       /\ promise[id].state = "resolved"

\* the connector list a call is to query: the one given, else the one
\* configured, else the one the endpoint names, else none
ConnectorSet(params) ==
  IF params.connectors # <<>> THEN params.connectors[1]
  ELSE IF connectors # <<>> THEN connectors[1]
  ELSE IF infoConnectors # <<>> THEN infoConnectors[1]
  ELSE <<>>

\* C14: a quote call for a remote destination sends one request to each
\* connector of params.connectors when given, otherwise of the list configured
\* at construction, otherwise of the endpoint's getInfo().connectors, otherwise
\* of the empty list; with an empty list it sends no message and resolves with
\* undefined.
C14_ConnectorSetQueried ==
  /\ [][(QuoteCalled /\ RemoteCall(last'.params))
        => LET list == ConnectorSet(last'.params) IN
           /\ Len(quoteReqs') = Len(list)
           /\ \A k \in 1..Len(list) :
                /\ quoteReqs'[k] = nextId + k - 1
                /\ sentTo'[quoteReqs'[k]] = list[k]
                /\ sendStatus'[quoteReqs'[k]] = "sent"
           /\ nextId' = nextId + Len(list)
           /\ \A id \in Ids : id >= nextId' => sendStatus'[id] = "none"
           /\ list = <<>> => UNCHANGED requestState]_vars
  /\ [](Joined /\ quoteReqs = <<>> => quoteState = "resolved" /\ quoteResult = <<>>)

\* C14 witness: a call without a list, on a client without a configured list,
\* has queried the connectors the endpoint names
C14_Witness ==
  /\ last.op = "quote"
  /\ RemoteCall(last.params)
  /\ last.params.connectors = <<>>
  /\ connectors = <<>>
  /\ infoConnectors = <<FirstConnectors(MaxConnectors)>>
  /\ Len(quoteReqs) = MaxConnectors
  /\ \A k \in 1..MaxConnectors : sentTo[quoteReqs[k]] = k

\* ------------------------------------------------ sendQuotedPayment
\* the step just taken was a sendQuotedPayment call
Paid == last'.op = "pay"

\* the step just taken handed `n` transfers to plugin.sendTransfer, after
\* those handed over before
Submitted(n) ==
  /\ Len(transfers') = Len(transfers) + n
  /\ SubSeq(transfers', 1, Len(transfers)) = transfers

\* the checks on single fields pass: a condition or the flag, an expiry with
\* a condition, both amounts, the destination account
FieldsGiven(params) ==
  /\ params.executionCondition # <<>> \/ params.unsafeOptimisticTransport
  /\ params.executionCondition # <<>> => params.expiresAt # <<>>
  /\ params.sourceAmount # <<>>
  /\ params.destinationAmount # <<>>
  /\ params.destinationAccount # <<>>

\* a call without connectorAccount whose amounts are different strings
LocalAndDiffering(params) ==
  /\ params.connectorAccount = <<>>
  /\ params.sourceAmount # params.destinationAmount

\* C15: every transfer sendQuotedPayment submits carries both
\* executionCondition and expiresAt, or was requested with
\* unsafeOptimisticTransport; a call with no condition and no flag, and a
\* call with a condition but no expiresAt, are rejected with their own error
\* and submit nothing.
C15_ConditionOrOptimistic ==
  [][Paid =>
       LET params == payment'.params IN
       /\ Len(transfers') > Len(transfers)
            => \A k \in (Len(transfers) + 1)..Len(transfers') :
                 \/ /\ transfers'[k].executionCondition # <<>>
                    /\ transfers'[k].expiresAt # <<>>
                 \/ params.unsafeOptimisticTransport
       /\ (params.executionCondition = <<>> /\ ~params.unsafeOptimisticTransport)
            => /\ payment'.state = "rejected"
               /\ payment'.err = ConditionError
               /\ UNCHANGED transfers
       /\ (params.executionCondition # <<>> /\ params.expiresAt = <<>>)
            => /\ payment'.state = "rejected"
               /\ payment'.err = ExpiresAtError
               /\ UNCHANGED transfers]_vars

\* C15 witness: a call with the flag and no condition has just submitted a
\* transfer that carries no condition
C15_Witness ==
  /\ last.op = "pay"
  /\ payment.params.unsafeOptimisticTransport
  /\ payment.params.executionCondition = <<>>
  /\ payment.state = "pending"
  /\ Len(transfers) = 1
  /\ transfers[1].executionCondition = <<>>

C18_TransferFields ==
  [][(Paid /\ Len(transfers') > Len(transfers))
     => LET params == payment'.params
            transfer == transfers'[Len(transfers')]
        IN
        /\ params.uuid # <<>> => transfer.id = params.uuid[1]
        /\ params.uuid = <<>> => \A k \in DOMAIN transfers : transfers[k].id # transfer.id
        /\ transfer.amount = params.sourceAmount[1]
        /\ transfer.account = IF params.connectorAccount # <<>>
                                THEN params.connectorAccount[1]
                              ELSE params.destinationAccount[1]]_vars

\* C18 witness: two calls without uuid, the first through a connector and the
\* second local, have submitted transfers with different generated ids
C18_Witness ==
  /\ last.op = "pay"
  /\ Len(transfers) = 2
  /\ payment.params.uuid = <<>>
  /\ transfers[1].id[1] = "v4"
  /\ transfers[2].id[1] = "v4"
  /\ transfers[1].id # transfers[2].id
  /\ transfers[1].account = "connector"
  /\ transfers[2].account = "example.blue.bob"

\* ------------------------------------------------- waitForConnection
\* the step just taken was the w-th waitForConnection call
Waited(w) == last'.op = "wait" /\ last'.id = w

\* C19: waitForConnection rejects at once whenever the client is not
\* attempting to connect (connect was never called, or disconnect was called
\* after it), whether or not the endpoint reports itself connected.
C19_RejectsWhenNotConnecting ==
  [][\A w \in Waits :
       (Waited(w) /\ ~connecting)
       => /\ waits'[w].state = "rejected"
          /\ waits'[w].err = DisconnectedError
          /\ UNCHANGED listeners]_vars

\* C19 witness: after a disconnect, with the endpoint still connected, a
\* waitForConnection call has just been rejected
C19_Witness ==
  \E w \in Waits :
    /\ last.op = "wait" /\ last.id = w
    /\ ~connecting
    /\ connected
    /\ waits[w].state = "rejected"
    /\ waits[w].err = DisconnectedError
    /\ \E v \in Waits : waits[v].state = "resolved"

\* C20: while the client is attempting to connect, waitForConnection resolves
\* at once if the endpoint reports itself connected and is suspended
\* otherwise; a suspended call stays suspended through every step but the
\* endpoint's next 'connect' event, which resolves it; its resolve is called
\* once, and a resolved call is not touched by later 'connect' events.
C20_ResolvesOnNextConnect ==
  /\ [][\A w \in Waits :
          /\ (Waited(w) /\ connecting /\ connected)
               => waits'[w].state = "resolved" /\ w \notin listeners'
          /\ (Waited(w) /\ connecting /\ ~connected)
               => waits'[w].state = "pending" /\ w \in listeners'
          /\ waits[w].state = "pending"
               => IF last'.op = "plugin connect"
                    THEN waits'[w].state = "resolved"
                  ELSE waits'[w] = waits[w]
          /\ waits[w].state = "resolved"
               => waits'[w].state = "resolved"
                  /\ waits'[w].resolveCalls = waits[w].resolveCalls]_vars
  /\ [](\A w \in Waits :
          /\ waits[w].state = "pending" => waits[w].events = 0
          /\ waits[w].resolveCalls <= 1
          /\ waits[w].state = "resolved" <=> waits[w].resolveCalls = 1)

\* C20 witness: a suspended call was resolved by a 'connect' event, and a
\* further 'connect' event has just occurred
C20_Witness ==
  \E w \in Waits :
    /\ last.op = "plugin connect"
    /\ waits[w].suspended
    /\ waits[w].state = "resolved"
    /\ waits[w].resolveCalls = 1
    /\ waits[w].events = MaxEvents

\* ------------------------------------------------------ the Core registry
\* the client that the calls of `calls` leave registered under prefix p: the
\* one of the latest addClient(p, ...) unless a removeClient(p) followed it;
\* 0 for none
RECURSIVE AddedUnder(_, _)
AddedUnder(calls, p) ==
  IF calls = <<>> THEN 0
  ELSE LET call == calls[Len(calls)]
       IN  IF call.prefix = p
             THEN IF call.op = "add" THEN call.client ELSE 0
           ELSE AddedUnder(SubSeq(calls, 1, Len(calls) - 1), p)

\* how many of the calls of `calls` are `op` calls with client c
Count(calls, op, c) ==
  Cardinality({i \in 1..Len(calls) : calls[i].op = op /\ calls[i].client = c})

\* client c has been added more often than removeClient has returned it
StillAdded(c) == Count(log, "add", c) > Count(log, "remove", c)

\* C21: after any sequence of addClient and removeClient calls with
\* well-formed prefixes, getClient(p) returns the client most recently added
\* under exactly p and not removed since, and null otherwise (so for a ledger
\* no client was ever added for); removeClient(p) returns that client, or
\* returns undefined and leaves clients and clientList unchanged when no
\* client is registered under p.
C21_ExactPrefixLookup ==
  /\ [](\A p \in Ledgers : clients[p] = AddedUnder(log, p))
  /\ []((coreLast.op = "getClient" /\ EndsWithDelimiter(coreLast.prefix))
          => coreLast.result =
               IF AddedUnder(log, coreLast.prefix) = 0
                 THEN Returned("null", 0)
               ELSE Returned("client", AddedUnder(log, coreLast.prefix)))
  /\ [][(Len(log') = Len(log) + 1 /\ log'[Len(log')].op = "remove")
          => LET p == log'[Len(log')].prefix
             IN  /\ coreLast'.op = "removeClient" /\ coreLast'.prefix = p
                 /\ IF AddedUnder(log, p) = 0
                      THEN /\ coreLast'.result = Returned("undefined", 0)
                           /\ UNCHANGED <<clients, clientList>>
                    ELSE coreLast'.result = Returned("client", AddedUnder(log, p))]_vars

\* C21 witness: a second client was added under a used prefix, a removeClient
\* of a prefix with no client returned undefined, and getClient returns the
\* second client
C21_Witness ==
  /\ log = <<Call("add", Ledger1, 1), Call("add", Ledger1, 2), Call("remove", Ledger2, 0)>>
  /\ coreLast.op = "getClient" /\ coreLast.prefix = Ledger1
  /\ coreLast.result = Returned("client", 2)
  /\ clientList = <<1, 2>>

\* C22: addClient, getClient and getPlugin called with a string that does not
\* end with '.' throw 'prefix must end with "."', and a failing addClient
\* changes neither clients nor clientList nor the listeners of the client.
C22_MalformedPrefixThrows ==
  /\ []((/\ coreLast.op \in {"addClient", "getClient", "getPlugin"}
         /\ ~EndsWithDelimiter(coreLast.prefix))
          => coreLast.result = Thrown(PrefixError))
  /\ [][(coreLast'.op = "addClient" /\ coreLast'.result.kind = "throw")
          => UNCHANGED <<clients, clientList, relay, log>>]_vars

\* C22 witness: addClient has just thrown for a client that is in neither
\* clients nor clientList, with another client registered
C22_Witness ==
  /\ coreLast.op = "addClient" /\ coreLast.prefix = <<"ledger1">>
  /\ coreLast.result = Thrown(PrefixError)
  /\ coreLast.client = 2
  /\ clientList = <<1>>
  /\ relay[2] = 0
  /\ \A p \in Ledgers : clients[p] # 2

CoreQuoteCalled == coreQuote.state # "idle"

\* the hop the tables give for the query of the latest call
BestHop ==
  findBestHopForAmount(coreQuote.query.sourceAddress, coreQuote.query.destinationAddress,
                       coreQuote.query.sourceAmount, coreQuote.query.destinationAmount)

\* the ledger of an address: the address without its last segment
LedgerOf(address) == SubSeq(address, 1, Len(address) - 1)

\* the call has asked a client for a tail quote
TailAsked == coreQuote.requests # <<>>

\* the tail request has been answered with no quote
TailFailed ==
  TailAsked /\ coreQuote.state # "waiting" /\ coreQuote.tailQuote = <<>>

\* the decimal a in units of 10^-n
Units(a, n) == a[1] * Pow10(n - a[2])

\* C24: when the routing tables have no hop from the source address toward
\* the destination address, Core.quote resolves with null (it does not
\* reject) and asks no client for a quote.
C24_NoHopResolvesNull ==
  (/\ CoreQuoteCalled
   /\ \A r \in tables :
        \/ ~StartsWith(r.sourceLedger, coreQuote.query.sourceAddress)
        \/ ~StartsWith(r.destinationLedger, coreQuote.query.destinationAddress))
    => /\ coreQuote.state = "resolved"
       /\ coreQuote.result = <<>>
       /\ coreQuote.requests = <<>>

\* C24 witness: over tables that have routes, a call for a ledger none of
\* them leads to has resolved with null without a request
C24_Witness ==
  /\ coreQuote.state = "resolved" /\ coreQuote.result = <<>>
  /\ coreQuote.requests = <<>>
  /\ coreQuote.query.destinationAddress = <<"ledger4", ".", "mark">>
  /\ Cardinality(tables) = 2

\* C25: every quote Core.quote resolves with has sourceExpiryDuration =
\* destinationExpiryDuration + minMessageWindow, whichever of the two
\* durations the caller gave (none, one, both), on the local path and on the
\* composed one.
C25_ExpiryDurationsDiffer ==
  (coreQuote.state = "resolved" /\ coreQuote.result # <<>>)
    => coreQuote.result[1].sourceExpiryDuration
         = coreQuote.result[1].destinationExpiryDuration
             + coreQuote.result[1].minMessageWindow

\* C26: when the final ledger of the best hop is the ledger of the
\* destination address (and the hop's two ledgers have their clients),
\* Core.quote resolves with the quote built from that hop and asks no client
\* for a quote.
C26_DirectPathIsLocal ==
  (/\ CoreQuoteCalled
   /\ BestHop # <<>>
   /\ BestHop[1].finalLedger = LedgerOf(coreQuote.query.destinationAddress)
   /\ Lookup(BestHop[1].sourceLedger) # 0
   /\ Lookup(BestHop[1].destinationLedger) # 0)
    => /\ coreQuote.state = "resolved"
       /\ coreQuote.requests = <<>>
       /\ coreQuote.result # <<>>
       /\ coreQuote.result[1].sourceAmount = BestHop[1].sourceAmount
       /\ coreQuote.result[1].destinationAmount = BestHop[1].finalAmount
       /\ coreQuote.result[1].minMessageWindow = BestHop[1].minMessageWindow
       /\ coreQuote.result[1].liquidityCurve = BestHop[1].liquidityCurve
       /\ coreQuote.result[1].connectorAccount
            = GetAccount(Lookup(BestHop[1].sourceLedger))

\* C27: a call that needs a tail quote makes one request, of the client of
\* the hop's destination ledger, addressed to the hop's next connector; the
\* request has the amount of the side the caller fixed and not the other,
\* slippage '0' and, where the caller gave a source expiry, that duration
\* less the head hop's minMessageWindow.
C27_TailRequest ==
  TailAsked
    => /\ Len(coreQuote.requests) = 1
       /\ coreQuote.requests[1].client = clients[BestHop[1].destinationLedger]
       /\ coreQuote.requests[1].connector = BestHop[1].destinationCreditAccount
       /\ LET query == coreQuote.query
              asked == coreQuote.requests[1].query
          IN  /\ (asked.source_amount # <<>>) <=> (query.sourceAmount # <<>>)
              /\ (asked.destination_amount # <<>>) <=> (query.destinationAmount # <<>>)
              /\ (asked.source_amount = <<>>) # (asked.destination_amount = <<>>)
              /\ asked.slippage = "0"
              /\ query.sourceExpiryDuration # <<>>
                   => asked.source_expiry_duration
                        = <<query.sourceExpiryDuration[1] - LocalRoute.minMessageWindow>>

\* C28: the quote composed of a tail quote has the head hop's sourceAmount
\* (the caller's, or the one the head curve gives for the tail's
\* source_amount when the caller fixed the destination amount), the tail's
\* destination_amount and destination_ledger, and minMessageWindow = the head
\* hop's + (tail source_expiry_duration - tail destination_expiry_duration).
C28_ComposedQuote ==
  (coreQuote.state = "resolved" /\ coreQuote.tailQuote # <<>>)
    => LET tail == coreQuote.tailQuote[1]
           quote == coreQuote.result[1]
       IN  /\ coreQuote.result # <<>>
           /\ quote.sourceAmount =
                IF coreQuote.query.destinationAmount # <<>>
                  THEN <<AmountReverse(LocalRoute.curve[1], tail.source_amount)>>
                ELSE coreQuote.query.sourceAmount
           /\ quote.destinationAmount = <<tail.destination_amount>>
           /\ quote.destinationLedger = tail.destination_ledger
           /\ quote.minMessageWindow =
                LocalRoute.minMessageWindow
                  + (tail.source_expiry_duration - tail.destination_expiry_duration)

\* C28 witness: a call by destination amount has resolved with a quote
\* composed of a tail quote whose durations differ by 6 and whose
\* source_amount '50.00' gives the source amount '100'
C28_Witness ==
  /\ coreQuote.state = "resolved" /\ coreQuote.tailQuote # <<>>
  /\ coreQuote.query.destinationAmount # <<>>
  /\ coreQuote.tailQuote[1].source_amount = <<5000, 2>>
  /\ coreQuote.tailQuote[1].source_expiry_duration = 7
  /\ coreQuote.result[1].sourceAmount = <<(<<100, 0>>)>>
  /\ coreQuote.result[1].minMessageWindow = 9

\* C29: when the tail request yields no quote, Core.quote resolves with the
\* local quote rather than with null, and it does not reject.
C29_FallsBackToLocalQuote ==
  TailFailed
    => /\ coreQuote.state = "resolved"
       /\ coreQuote.result = coreQuote.localQuote
       /\ coreQuote.result # <<>>

\* C30: the source_amount of a tail request is the head hop's
\* destinationAmount rounded toward zero to the scale of the next ledger: it
\* does not exceed that amount and falls short of it by less than one unit
\* of that scale.
C30_RoundedToLedgerScale ==
  (TailAsked /\ coreQuote.requests[1].query.source_amount # <<>>)
    => LET sent == coreQuote.requests[1].query.source_amount[1]
           head == coreQuote.headHop[1].destinationAmount[1]
           n == sent[2] + head[2] + Scale
       IN  /\ Units(sent, n) <= Units(head, n)
           /\ Units(head, n) - Units(sent, n) < Pow10(n - Scale)

\* ------------------------------------------- requests pending at once
\* C31: with several requests pending at once, a response settles only the
\* request whose id it carries (and removes that request's entry); the
\* entry, the timer and the outcome of every other request are unchanged.
\* So in a fan-out the quote a connector's request resolved with is the one
\* delivered under that request's id, tagged with the connector the request
\* went to, whatever the order of responses, errors and timeouts.
C31_ResponseSettlesOnlyItsRequest ==
  /\ [][\A id \in Ids :
          DeliveredNow(id, {"error", "quote_response"})
          => /\ \A j \in Ids \ {id} :
                  /\ promise'[j] = promise[j]
                  /\ timer'[j] = timer[j]
                  /\ (j \in pendingMessages') <=> (j \in pendingMessages)
             /\ id \in pendingMessages
                  => /\ id \notin pendingMessages'
                     /\ promise'[id].state \in {"resolved", "rejected"}]_vars
  /\ [](\A k \in 1..Len(quoteReqs) :
          GetQuote(quoteReqs[k]).value # <<>>
          => /\ firstEvent[quoteReqs[k]].ev = "quote_response"
             /\ GetQuote(quoteReqs[k]).value[1].source_amount = QuoteOf(k).source_amount
             /\ GetQuote(quoteReqs[k]).value[1].destination_amount
                  = QuoteOf(k).destination_amount
             /\ GetQuote(quoteReqs[k]).value[1].source_connector_account
                  = sentTo[quoteReqs[k]])

\* C31 witness: of the two requests of a fan-out the second has just been
\* answered with a quote, while the first is still pending with its timer
\* armed
C31_Witness ==
  /\ Len(quoteReqs) = 2
  /\ last.op = "incoming" /\ last.id = quoteReqs[2] /\ last.method = "quote_response"
  /\ promise[quoteReqs[2]].state = "resolved"
  /\ quoteReqs[2] \notin pendingMessages
  /\ quoteReqs[1] \in pendingMessages
  /\ promise[quoteReqs[1]].state = "pending"
  /\ timer[quoteReqs[1]].st = "armed"

\* C32: a quote call for a remote destination hands the requests for all its
\* connectors to the endpoint in the step of the call, before any response
\* can be handled, and it resolves only once every one of these requests has
\* settled: while one of them is pending the call is pending, so a connector
\* that stays silent holds the result back until its request times out.
C32_JoinsAllRequests ==
  /\ [][(last'.op = "quote" /\ quoteState' = "pending")
          => \A k \in 1..Len(quoteReqs') :
               /\ sendStatus[quoteReqs'[k]] = "none"
               /\ sendStatus'[quoteReqs'[k]] = "sent"
               /\ promise'[quoteReqs'[k]].state = "pending"
               /\ quoteReqs'[k] \in pendingMessages']_vars
  /\ []((\E k \in 1..Len(quoteReqs) : promise[quoteReqs[k]].state = "pending")
          => quoteState = "pending")
  /\ []((quoteState = "resolved" /\ quoteReqs # <<>>)
          => \A k \in 1..Len(quoteReqs) :
               /\ Settled(quoteReqs[k])
               /\ (sendStatus[quoteReqs[k]] = "sent"
                   /\ firstEvent[quoteReqs[k]].ev \notin {"quote_response", "error"})
                    => timer[quoteReqs[k]].st = "fired")

\* C32 witness: the first of two connectors answered with a quote, the second
\* stayed silent; the call has resolved, with the first one's quote, after
\* the second request's timer fired
C32_Witness ==
  /\ quoteState = "resolved" /\ Len(quoteReqs) = 2
  /\ firstEvent[quoteReqs[1]].ev = "quote_response"
  /\ timer[quoteReqs[1]].st = "cleared"
  /\ firstEvent[quoteReqs[2]].ev = "timeout"
  /\ timer[quoteReqs[2]].st = "fired"
  /\ sendStatus[quoteReqs[2]] = "sent"
  /\ ResolvedWith(1)

\* C33: within one quote call one request goes to each connector of the list
\* and none is sent again: no step but a quote call sends a message, and the
\* error message, the send failure or the timeout of a request settles it at
\* once and for good.
C33_NoRetry ==
  /\ [](\A k, l \in 1..Len(quoteReqs) :
          (k # l) => /\ quoteReqs[k] # quoteReqs[l]
                     /\ sentTo[quoteReqs[k]] # sentTo[quoteReqs[l]])
  /\ [][last'.op # "quote"
          => /\ UNCHANGED <<nextId, sentTo, quoteReqs>>
             /\ \A id \in Ids : sendStatus[id] = "none" => sendStatus'[id] = "none"]_vars
  /\ [][\A id \in Ids :
          /\ (last'.id = id /\ last'.op \in {"timer", "sendFail"})
               => promise'[id].state \in {"resolved", "rejected"}
          /\ (DeliveredNow(id, {"error"}) /\ promise[id].state = "pending")
               => promise'[id].state = "rejected"
          /\ (promise[id].state = "rejected" /\ last'.op # "quote")
               => promise'[id] = promise[id]]_vars

\* C33 witness: a call over two connectors has resolved with undefined after
\* one request timed out and the other's send failed, with two messages sent
\* in all
C33_Witness ==
  /\ Joined /\ Len(quoteReqs) = 2
  /\ nextId = 3
  /\ firstEvent[quoteReqs[1]].ev = "timeout"
  /\ firstEvent[quoteReqs[2]].ev = "sendfail"
  /\ quoteResult = <<>>

\* ------------------------------------------------------------ failed send
\* C34: when the send of a pending request fails, the request is rejected
\* with the transport error, its timer is cleared and never fires afterwards,
\* its entry is removed from pendingMessages, and the outcome, timer and entry
\* of every other request stay as they are.
C34_SendFailureRejects ==
  /\ [][\A id \in Ids :
          (last'.op = "sendFail" /\ last'.id = id /\ sendStatus[id] = "sent")
          => /\ promise[id].state = "pending"
                  => /\ Rejected(id, TransportError)'
                     /\ timer[id].st = "armed"
                     /\ timer'[id].st = "cleared"
             /\ id \notin pendingMessages'
             /\ timer'[id].st # "armed"
             /\ \A j \in Ids \ {id} :
                  /\ promise'[j] = promise[j]
                  /\ timer'[j] = timer[j]
                  /\ (j \in pendingMessages') <=> (j \in pendingMessages)]_vars
  /\ [](\A id \in Ids :
          firstEvent[id].ev = "sendfail"
          => /\ Rejected(id, TransportError)
             /\ timer[id].st = "cleared"
             /\ id \notin pendingMessages)

\* C34 witness: the send of a pending request has just failed and a later
\* tick has passed, while another request is still pending with its timer
\* armed
C34_Witness ==
  \E id, other \in Ids :
    /\ firstEvent[id].ev = "sendfail"
    /\ Rejected(id, TransportError)
    /\ timer[id].st = "cleared"
    /\ last.op = "tick"
    /\ promise[other].state = "pending"
    /\ other \in pendingMessages
    /\ timer[other].st = "armed" /\ timer[other].elapsed > 0

\* ------------------------------------------------------------- termination
\* C35: every request that was sent is eventually settled, and every pending
\* Client.quote call eventually resolves or rejects, whatever the connectors
\* and the endpoint do, as long as armed timers run out and fire.
C35_EveryRequestSettles ==
  /\ \A id \in Ids : Issued(id) ~> Settled(id)
  /\ (quoteState = "pending") ~> (quoteState \in {"resolved", "rejected"})

\* C35 witness: a call over two connectors that never answered has resolved
\* after both requests were settled by their timers
C35_Witness ==
  /\ quoteState = "resolved" /\ Len(quoteReqs) = 2
  /\ \A k \in 1..2 :
       /\ sendStatus[quoteReqs[k]] = "sent"
       /\ timer[quoteReqs[k]].st = "fired"
       /\ Rejected(quoteReqs[k], TimeoutError)
       /\ quoteReqs[k] \in pendingMessages

\* ------------------------------------------------- registered before sent
\* C36: a request is handed to the endpoint under an id no other request has,
\* with its entry in pendingMessages, its timer armed and its promise pending
\* from that step on; and a quote_response delivered under the id of a sent
\* request that nothing has settled before resolves it with that response.
C36_RegisteredBeforeSent ==
  /\ [][\A id \in Ids :
          (~Issued(id) /\ Issued(id)')
          => /\ id = nextId /\ nextId' > id
             /\ \A j \in Ids \ {id} : Issued(j) => j < id
             /\ promise[id].state = "none"
             /\ promise'[id].state = "pending"
             /\ timer'[id].st = "armed"
             /\ id \in pendingMessages']_vars
  /\ [][\A id \in Ids :
          (/\ DeliveredNow(id, {"quote_response"})
           /\ Issued(id)
           /\ firstEvent[id].ev = "none")
          => /\ id \in pendingMessages
             /\ promise'[id].state = "resolved"
             /\ promise'[id].quote = firstEvent'[id].quote
             /\ id \notin pendingMessages']_vars

\* C36 witness: the response to the second request was delivered before any
\* time had passed since it was sent and resolved it, while the first request
\* is still pending
C36_Witness ==
  /\ nextId = 3
  /\ last.op = "incoming" /\ last.id = 2 /\ last.method = "quote_response"
  /\ firstEvent[2].ev = "quote_response"
  /\ promise[2].state = "resolved"
  /\ sendStatus[2] = "sent"
  /\ promise[1].state = "pending" /\ timer[1].elapsed = 0

\* ----------------------------------------------------- amounts of a query
\* C37: a Core.quote call whose query names both a source and a destination
\* amount is rejected, and no quote request is made of a connector for it.
C37_BothAmountsRejected ==
  (/\ CoreQuoteCalled
   /\ coreQuote.query.sourceAmount # <<>>
   /\ coreQuote.query.destinationAmount # <<>>)
  => /\ coreQuote.state = "rejected"
     /\ ~TailAsked

\* ------------------------------------------------- clientList and clients
\* C38: after any sequence of addClient and removeClient calls, clientList
\* holds exactly the clients that are values of the clients map, each of them
\* once.
C38_ListMatchesMap ==
  /\ {clientList[i] : i \in 1..Len(clientList)}
       = {clients[p] : p \in {q \in Ledgers : clients[q] # 0}}
  /\ \A i, j \in 1..Len(clientList) : clientList[i] = clientList[j] => i = j

\* ------------------------------------------ waitForConnection, disconnect
\* C39: a waitForConnection call that was suspended when disconnect was
\* called is not resolved by a 'connect' event of the endpoint that occurs
\* while the client is not attempting to connect (no connect call since the
\* disconnect).
C39_NoResolveAfterDisconnect ==
  \A w \in Waits :
    (/\ last.op = "plugin connect"
     /\ ~connecting
     /\ waits[w].suspended
     /\ waits[w].events = 1)
    => waits[w].state # "resolved"

\* ------------------------------------------------- ledgers with no client
\* C40: a Core.quote call with one amount never rejects, whatever clients
\* are registered: where the hop's source ledger or next ledger has no
\* client, it resolves with null.
C40_NeverRejects ==
  CoreQuoteCalled
  => /\ coreQuote.state # "rejected"
     /\ (BestHop # <<>> /\ Lookup(BestHop[1].sourceLedger) = 0)
          => coreQuote.state = "resolved" /\ coreQuote.result = <<>>
====
